---- MODULE Spec2Model ----
(***************************************************************************)
(* EduMorph performance and recommendation engine.                         *)
(*                                                                         *)
(* The services are static classes over a remote document store.  The     *)
(* model keeps one variable per store collection, a clock, and the         *)
(* arguments and the result of the last completed call.  Numbers the code  *)
(* divides are kept as exact fractions in lowest terms; time is counted in *)
(* ticks of 1/DayLen of a day.                                             *)
(***************************************************************************)
EXTENDS Integers, Sequences, FiniteSets, TLC

VARIABLES
    now,                \* the clock read by `new Date()`
    progress,           \* collection "progress", in the order of the query
                        \* orderBy("completedAt", "desc") (ties by document id)
    performanceMetrics, \* collection "performanceMetrics": studentId -> snapshot
    learningGaps,       \* collection "learningGaps": document id -> gap
    studyMatches,       \* collection "studyMatches": matchId -> match
    users,              \* collection "users": uid -> profile
    call,               \* the arguments of the last call (or of the pending one)
    ret,                \* what the last call returned
    prior,              \* studentId -> the snapshot the latest recomputation
                        \* replaced, kept while no event was recorded since
    reports,            \* collection "reports": reportId -> report
    insights,           \* collection "insights": studentId -> insight batch
    privacySettings,    \* collection "privacySettings": userId -> settings
    pending,            \* caller -> the recordProgress call it is inside of, or
                        \* callback number -> the auth-state callback suspended
    auth                \* the state of AuthProvider: user, userProfile, loading
                        \* and the number of auth-state notifications so far

vars == <<now, progress, performanceMetrics, learningGaps, studyMatches, users,
          call, ret, prior, reports, insights, privacySettings, pending, auth>>

\* the collections and the calls in flight that the metrics pipeline leaves alone
rest == <<reports, insights, privacySettings, pending, auth>>

----------------------------------------------------------------------------
(* Bounds of the model.                                                    *)

MaxEvents == 2

MaxTime == 30

DayLen == 2

MaxRecent == 3

MaxHistory == 8

MaxRun == 31

RecomputeEnd == 125

\* the last instant of the runs that use every service
MaxServiceTime == 1

\* the applications of adjustDifficulty in a run that feeds its result back
MaxFeedback == 3

\* the auth-state notifications of a run
MaxNotifications == 2

----------------------------------------------------------------------------
(* Values.                                                                 *)

NoRet == [none |-> TRUE]

NoCall == [op |-> "none"]

\* null, the value a caller that tests `=== null` would need
Null == [null |-> TRUE]

Abs(x) == IF x < 0 THEN -x ELSE x

Max(a, b) == IF a >= b THEN a ELSE b

Min(a, b) == IF a <= b THEN a ELSE b

RECURSIVE GCD(_, _)
GCD(a, b) == IF b = 0 THEN a ELSE GCD(b, a % b)

\* the number n/d (d > 0), in lowest terms
Rat(n, d) == LET g == GCD(Abs(n), d) IN [n |-> n \div g, d |-> d \div g]

RatInt(i) == [n |-> i, d |-> 1]

RatAdd(a, b) == Rat(a.n * b.d + b.n * a.d, a.d * b.d)

RatSub(a, b) == Rat(a.n * b.d - b.n * a.d, a.d * b.d)

RatMul(a, b) == Rat(a.n * b.n, a.d * b.d)

RatAbs(a) == [n |-> Abs(a.n), d |-> a.d]

RatLt(a, b) == a.n * b.d < b.n * a.d

RatLe(a, b) == a.n * b.d <= b.n * a.d

RatMax(a, b) == IF RatLe(b, a) THEN a ELSE b

RatMin(a, b) == IF RatLe(a, b) THEN a ELSE b

\* Math.round: the nearest integer, a half rounds towards +Infinity
MathRound(a) == (2 * a.n + a.d) \div (2 * a.d)

\* s[lo] + ... + s[hi], summed by halves
RECURSIVE SumRange(_, _, _)
SumRange(s, lo, hi) ==
    IF lo > hi THEN 0
    ELSE IF lo = hi THEN s[lo]
    ELSE LET mid == (lo + hi) \div 2
         IN  SumRange(s, lo, mid) + SumRange(s, mid + 1, hi)

SumSeq(s) == SumRange(s, 1, Len(s))

\* the values of a sequence, as a set
Range(s) == {s[i] : i \in DOMAIN s}

\* setDoc(doc(db, coll, id), data): create or replace one document
setDoc(coll, id, data) ==
    [k \in DOMAIN coll \cup {id} |-> IF k = id THEN data ELSE coll[k]]

\* a StudentProgress document
StudentProgress(studentId, subject, topic, score, attempts, difficulty, at) ==
    [studentId |-> studentId, subject |-> subject, topic |-> topic,
     completedAt |-> at, score |-> score, difficulty |-> difficulty,
     attempts |-> attempts]

----------------------------------------------------------------------------
(* ProgressTracker.                                                        *)

\* a query that forgets where("studentId", "==", studentId)
getStudentProgressAll(coll, studentId) == coll

getStudentProgress(coll, studentId) ==
    SelectSeq(coll, LAMBDA e : e.studentId = studentId)

\* Date arithmetic of setDate(getDate() - n): n days before t
DaysAgo(t, n) == t - n * DayLen

\* toISOString().split("T")[0]: the calendar day of an instant
CalendarDay(t) == t \div DayLen

\* a count of the recent events instead of the days that have one
calculateConsistencyByEvents(prog, t) ==
    IF Len(prog) < 7 THEN 50
    ELSE LET last30Days == DaysAgo(t, 30)
             recentProgress == SelectSeq(prog, LAMBDA p : p.completedAt >= last30Days)
         IN  IF Len(recentProgress) = 0 THEN 0
             ELSE MathRound(RatMin(RatInt(100), Rat(Len(recentProgress) * 100, 30)))

calculateConsistency(prog, t) ==
    IF Len(prog) < 7 THEN 50
    ELSE LET last30Days == DaysAgo(t, 30)
             recentProgress == SelectSeq(prog, LAMBDA p : p.completedAt >= last30Days)
             activeDays == Cardinality({CalendarDay(p.completedAt) : p \in Range(recentProgress)})
         IN  IF Len(recentProgress) = 0 THEN 0
             ELSE MathRound(RatMin(RatInt(100), Rat(activeDays * 100, 30)))

\* a callback that counts a subject once, when it first appears
subjectStepCountOnce(acc, p, subject) ==
    IF p.subject # subject THEN acc
    ELSE [known |-> TRUE, sum |-> acc.sum + p.score, cnt |-> 1]

\* the callback of the forEach of lines 137-144, followed for one subject:
\* `!subjectScores[p.subject]` holds for a missing key and for a sum of 0, and
\* the sum and the count are then set to 0 before the event is added
subjectStep(acc, p, subject) ==
    IF p.subject # subject THEN acc
    ELSE LET falsy == ~acc.known \/ acc.sum = 0
         IN  [known |-> TRUE,
              sum |-> (IF falsy THEN 0 ELSE acc.sum) + p.score,
              cnt |-> (IF falsy THEN 0 ELSE acc.cnt) + 1]

\* the callback applied to the events lo..hi in order, starting from acc; the
\* range is split in halves, the first evaluated before the second is entered
RECURSIVE subjectFold(_, _, _, _, _)
subjectFold(prog, subject, lo, hi, acc) ==
    IF lo > hi THEN acc
    ELSE IF lo = hi THEN subjectStep(acc, prog[lo], subject)
    ELSE LET mid == (lo + hi) \div 2
             left == subjectFold(prog, subject, lo, mid, acc)
         IN  IF left.cnt >= 0 THEN subjectFold(prog, subject, mid + 1, hi, left)
             ELSE left

\* Object.keys(subjectScores): the subjects in the order they first appear
subjectKeys(prog) ==
    LET subjects == {prog[i].subject : i \in DOMAIN prog}
        first(s) == CHOOSE i \in DOMAIN prog :
                        prog[i].subject = s /\ \A j \in 1..(i - 1) : prog[j].subject # s
    IN  [k \in 1..Cardinality(subjects) |->
            CHOOSE s \in subjects : Cardinality({u \in subjects : first(u) < first(s)}) = k - 1]

\* subjectScores and subjectCounts when the forEach is over
subjectTotals(prog) ==
    LET start == [known |-> FALSE, sum |-> 0, cnt |-> 0]
        subjects == {prog[i].subject : i \in DOMAIN prog}
    IN  [keys |-> subjectKeys(prog),
         sum |-> [s \in subjects |-> subjectFold(prog, s, 1, Len(prog), start).sum],
         cnt |-> [s \in subjects |-> subjectFold(prog, s, 1, Len(prog), start).cnt]]

\* the body of updatePerformanceMetrics for a non-empty history
computeMetrics(studentId, prog, t) ==
    LET overallScore == Rat(SumSeq([i \in DOMAIN prog |-> prog[i].score]), Len(prog))
        tot == subjectTotals(prog)
        subjectScores == [s \in DOMAIN tot.sum |-> Rat(tot.sum[s], tot.cnt[s])]
        strengths == SelectSeq(tot.keys, LAMBDA s : RatLe(RatInt(75), subjectScores[s]))
        weaknesses == SelectSeq(tot.keys, LAMBDA s : RatLt(subjectScores[s], RatInt(60)))
        oneWeekAgo == DaysAgo(t, 7)
        recentProgress == SelectSeq(prog, LAMBDA p : p.completedAt >= oneWeekAgo)
    IN  [studentId |-> studentId,
         overallScore |-> overallScore,
         subjectScores |-> subjectScores,
         strengths |-> strengths,
         weaknesses |-> weaknesses,
         learningVelocity |-> Len(recentProgress),
         consistency |-> calculateConsistency(prog, t),
         lastUpdated |-> t]

\* what updatePerformanceMetrics returns: the snapshot, or nothing
metricsOf(coll, studentId, t) ==
    LET prog == getStudentProgress(coll, studentId)
    IN  IF Len(prog) = 0 THEN NoRet ELSE computeMetrics(studentId, prog, t)

\* a write that merges the new lists into the stored snapshot's
metricsWrittenMerged(pm, coll, studentId, t) ==
    LET m == metricsOf(coll, studentId, t)
    IN  IF m = NoRet THEN pm
        ELSE IF studentId \in DOMAIN pm
        THEN setDoc(pm, studentId,
                    [m EXCEPT !.strengths = pm[studentId].strengths \o @,
                              !.weaknesses = pm[studentId].weaknesses \o @])
        ELSE setDoc(pm, studentId, m)

\* a write that leaves a stored snapshot as it is
metricsWrittenOnce(pm, coll, studentId, t) ==
    LET m == metricsOf(coll, studentId, t)
    IN  IF m = NoRet \/ studentId \in DOMAIN pm THEN pm ELSE setDoc(pm, studentId, m)

\* the collection "performanceMetrics" after updatePerformanceMetrics
metricsWritten(pm, coll, studentId, t) ==
    LET m == metricsOf(coll, studentId, t)
    IN  IF m = NoRet THEN pm ELSE setDoc(pm, studentId, m)

\* the events stamped with the present instant lead the query's order; the
\* document id of a new event places it anywhere among them
TiesAt(coll, t) == Cardinality({i \in DOMAIN coll : coll[i].completedAt = t})

InsertAt(coll, pos, e) ==
    [i \in 1..(Len(coll) + 1) |->
        IF i < pos THEN coll[i] ELSE IF i = pos THEN e ELSE coll[i - 1]]

recordProgress(studentId, subject, topic, score, attempts, difficulty) ==
    /\ Len(progress) < MaxEvents
    /\ \E pos \in 1..(TiesAt(progress, now) + 1) :
        LET progressData == StudentProgress(studentId, subject, topic, score,
                                            attempts, difficulty, now)
            stored == InsertAt(progress, pos, progressData)
        IN  /\ progress' = stored
            /\ performanceMetrics' = metricsWritten(performanceMetrics, stored, studentId, now)
            /\ ret' = progressData
    /\ call' = [op |-> "recordProgress", studentId |-> studentId]
    /\ prior' = [x \in DOMAIN prior \ {studentId} |-> prior[x]]
    /\ UNCHANGED <<now, learningGaps, studyMatches, users, rest>>

\* a failed recomputation whose snapshot reaches the store all the same
metricsOnErrorWritten(pm, coll, studentId, t) ==
    LET m == metricsOf(coll, studentId, t)
    IN  IF m = NoRet THEN pm ELSE setDoc(pm, studentId, m)

\* the collection "performanceMetrics" when updatePerformanceMetrics rejects:
\* at the read of line 125 nothing was computed, at the write of lines 181-185
\* the document was not set
metricsOnError(pm, coll, studentId, t) == pm

\* recordProgress when the awaited updatePerformanceMetrics rejects, at its
\* getDocs or at its setDoc: line 36 has no try/catch, line 38 is not reached
recordProgressFails(studentId, subject, topic, score, attempts, difficulty, at) ==
    /\ Len(progress) < MaxEvents
    /\ \E pos \in 1..(TiesAt(progress, now) + 1) :
        LET progressData == StudentProgress(studentId, subject, topic, score,
                                            attempts, difficulty, now)
            stored == InsertAt(progress, pos, progressData)
        IN  /\ progress' = stored
            /\ performanceMetrics' = metricsOnError(performanceMetrics, stored, studentId, now)
    /\ ret' = [error |-> at]
    /\ call' = [op |-> "recordProgress", studentId |-> studentId, failed |-> at]
    /\ prior' = [x \in DOMAIN prior \ {studentId} |-> prior[x]]
    /\ UNCHANGED <<now, learningGaps, studyMatches, users, rest>>

updatePerformanceMetrics(studentId) ==
    /\ performanceMetrics' = metricsWritten(performanceMetrics, progress, studentId, now)
    /\ ret' = metricsOf(progress, studentId, now)
    /\ call' = [op |-> "updatePerformanceMetrics", studentId |-> studentId]
    /\ prior' = IF metricsOf(progress, studentId, now) # NoRet
                   /\ studentId \in DOMAIN performanceMetrics
                THEN setDoc(prior, studentId, performanceMetrics[studentId])
                ELSE prior
    /\ UNCHANGED <<now, progress, learningGaps, studyMatches, users, rest>>

\* recordProgress in the steps of its store calls, for calls that interleave.
\* First step: the event is stored (lines 24-33).
recordProgressSetDoc(caller, studentId, subject, topic, score, attempts, difficulty) ==
    /\ caller \notin DOMAIN pending
    /\ Len(progress) < MaxEvents
    /\ \E pos \in 1..(TiesAt(progress, now) + 1) :
        LET progressData == StudentProgress(studentId, subject, topic, score,
                                            attempts, difficulty, now)
        IN  /\ progress' = InsertAt(progress, pos, progressData)
            /\ pending' = setDoc(pending, caller,
                                 [at |-> "stored", progressData |-> progressData])
    /\ prior' = [x \in DOMAIN prior \ {studentId} |-> prior[x]]
    /\ UNCHANGED <<now, performanceMetrics, learningGaps, studyMatches, users,
                   call, ret, reports, insights, privacySettings, auth>>

\* Second step: updatePerformanceMetrics reads the student's events (line 125).
recordProgressGetDocs(caller) ==
    /\ caller \in DOMAIN pending
    /\ pending[caller].at = "stored"
    /\ pending' = setDoc(pending, caller,
                         [at |-> "read",
                          progressData |-> pending[caller].progressData,
                          progress |-> getStudentProgress(progress,
                                           pending[caller].progressData.studentId)])
    /\ UNCHANGED <<now, progress, performanceMetrics, learningGaps, studyMatches, users,
                   call, ret, prior, reports, insights, privacySettings, auth>>

\* Third step: the snapshot computed from the events read is written (lines
\* 129-185) and the call returns.
recordProgressReturn(caller) ==
    /\ caller \in DOMAIN pending
    /\ pending[caller].at = "read"
    /\ performanceMetrics' = metricsWritten(performanceMetrics, pending[caller].progress,
                                            pending[caller].progressData.studentId, now)
    /\ pending' = [c \in DOMAIN pending \ {caller} |-> pending[c]]
    /\ ret' = pending[caller].progressData
    /\ call' = [op |-> "recordProgress",
                studentId |-> pending[caller].progressData.studentId,
                caller |-> caller]
    /\ UNCHANGED <<now, progress, learningGaps, studyMatches, users, prior,
                   reports, insights, privacySettings, auth>>

\* the value getPerformanceMetrics returns and the collection it leaves
getPerformanceMetricsRet(pm, coll, studentId, t) ==
    IF studentId \in DOMAIN pm THEN pm[studentId] ELSE metricsOf(coll, studentId, t)

\* a lookup that computes a snapshot and does not store it
getPerformanceMetricsStoreNever(pm, coll, studentId, t) == pm

getPerformanceMetricsStore(pm, coll, studentId, t) ==
    IF studentId \in DOMAIN pm THEN pm ELSE metricsWritten(pm, coll, studentId, t)

getPerformanceMetrics(studentId) ==
    /\ ret' = getPerformanceMetricsRet(performanceMetrics, progress, studentId, now)
    /\ performanceMetrics' = getPerformanceMetricsStore(performanceMetrics, progress, studentId, now)
    /\ call' = [op |-> "getPerformanceMetrics", studentId |-> studentId]
    /\ UNCHANGED <<now, progress, learningGaps, studyMatches, users, rest, prior>>

\* generateSuggestedResources: the four templated strings
generateSuggestedResources(subject, topic, difficulty) ==
    <<"Review " \o difficulty \o " level materials for " \o topic,
      "Practice exercises on " \o topic,
      "Watch tutorial videos about " \o subject \o " - " \o topic,
      "Join study group for " \o subject>>

\* the key of gapMap
gapKey(subject, topic) == subject \o "-" \o topic

LearningGap(studentId, item, t) ==
    [studentId |-> studentId,
     subject |-> item.subject,
     topic |-> item.topic,
     weakPoints |-> <<>>,
     suggestedResources |->
         generateSuggestedResources(item.subject, item.topic, item.difficulty),
     priority |-> IF item.score < 40 THEN "high"
                  ELSE IF item.score < 60 THEN "medium" ELSE "low",
     identifiedAt |-> t]

\* a callback that lets a later qualifying event replace the gap of its key
gapStepOverwrite(acc, item, studentId, t) ==
    LET key == gapKey(item.subject, item.topic)
    IN  IF item.score < 60 \/ item.attempts > 2
        THEN IF \E i \in DOMAIN acc : acc[i].key = key
             THEN [i \in DOMAIN acc |->
                      IF acc[i].key = key
                      THEN [key |-> key, gap |-> LearningGap(studentId, item, t)]
                      ELSE acc[i]]
             ELSE Append(acc, [key |-> key, gap |-> LearningGap(studentId, item, t)])
        ELSE acc

\* the callback of the forEach of lines 72-99; acc is gapMap, its entries in
\* insertion order
gapStep(acc, item, studentId, t) ==
    LET key == gapKey(item.subject, item.topic)
    IN  IF item.score < 60 \/ item.attempts > 2
        THEN IF \E i \in DOMAIN acc : acc[i].key = key
             THEN acc
             ELSE Append(acc, [key |-> key, gap |-> LearningGap(studentId, item, t)])
        ELSE acc

\* the callback applied to the events lo..hi in order, by halves
RECURSIVE gapFold(_, _, _, _, _, _)
gapFold(prog, studentId, t, lo, hi, acc) ==
    IF lo > hi THEN acc
    ELSE IF lo = hi THEN gapStep(acc, prog[lo], studentId, t)
    ELSE LET mid == (lo + hi) \div 2
             left == gapFold(prog, studentId, t, lo, mid, acc)
         IN  IF Len(left) >= 0 THEN gapFold(prog, studentId, t, mid + 1, hi, left)
             ELSE left

\* a gap list drawn from the student's latest event only
gapsOfLatest(coll, studentId, t) ==
    LET prog == getStudentProgress(coll, studentId)
        gapMap == gapFold(prog, studentId, t, 1, Min(1, Len(prog)), <<>>)
    IN  [i \in DOMAIN gapMap |-> gapMap[i].gap]

\* Array.from(gapMap.values())
gapsOf(coll, studentId, t) ==
    LET prog == getStudentProgress(coll, studentId)
        gapMap == gapFold(prog, studentId, t, 1, Len(prog), <<>>)
    IN  [i \in DOMAIN gapMap |-> gapMap[i].gap]

\* the collection "learningGaps" after the first n gaps were saved
RECURSIVE gapsSaved(_, _, _)
gapsSaved(lg, gaps, n) ==
    IF n = 0 THEN lg
    ELSE LET gap == gaps[n]
             id == gap.studentId \o "-" \o gap.subject \o "-" \o gap.topic
         IN  setDoc(gapsSaved(lg, gaps, n - 1), id, gap)

identifyLearningGaps(studentId) ==
    LET gaps == gapsOf(progress, studentId, now)
    IN  /\ learningGaps' = gapsSaved(learningGaps, gaps, Len(gaps))
        /\ ret' = gaps
        /\ call' = [op |-> "identifyLearningGaps", studentId |-> studentId]
        /\ UNCHANGED <<now, progress, performanceMetrics, studyMatches, users, rest, prior>>

----------------------------------------------------------------------------
(* StudyMatchmaker.                                                        *)

\* the order in which a query returns the documents of "users": by id
UidOrder == <<"s1", "s2", "u1", "u2", "u3", "u4", "u5", "u6", "u7", "u8">>

\* a score without the Math.max(0, ...) floors
calculateCompatibilityNoFloor(metrics1, metrics2, commonSubjects, preferences) ==
    LET subjectPart == Rat(Len(commonSubjects) * 40, Len(preferences.subjects))
        scoreDiff == RatAbs(RatSub(metrics1.overallScore, metrics2.overallScore))
        consistencyDiff == Abs(metrics1.consistency - metrics2.consistency)
    IN  MathRound(RatAdd(RatAdd(subjectPart, RatSub(RatInt(30), scoreDiff)),
                         RatInt(30 - consistencyDiff)))

calculateCompatibility(metrics1, metrics2, commonSubjects, preferences) ==
    LET subjectPart == Rat(Len(commonSubjects) * 40, Len(preferences.subjects))
        scoreDiff == RatAbs(RatSub(metrics1.overallScore, metrics2.overallScore))
        scorePart == RatMax(RatInt(0), RatSub(RatInt(30), scoreDiff))
        consistencyDiff == Abs(metrics1.consistency - metrics2.consistency)
        consistencyPart == RatInt(Max(0, 30 - consistencyDiff))
    IN  MathRound(RatAdd(RatAdd(subjectPart, scorePart), consistencyPart))

\* preferences.subjects.filter(subject => keys(subjectScores).includes(subject))
commonSubjectsOf(preferences, candidateMetrics) ==
    SelectSeq(preferences.subjects, LAMBDA s : s \in DOMAIN candidateMetrics.subjectScores)

\* the loop of lines 45-80 after the first n candidates: the collection
\* "performanceMetrics" (a lookup may create a snapshot) and the matches pushed
RECURSIVE scanCandidates(_, _, _, _, _, _, _, _)
scanCandidates(candidates, n, studentId, studentMetrics, preferences, pm, coll, t) ==
    IF n = 0 THEN [pm |-> pm, matches |-> <<>>]
    ELSE LET before == scanCandidates(candidates, n - 1, studentId, studentMetrics,
                                      preferences, pm, coll, t)
             uid == candidates[n]
             candidateMetrics == getPerformanceMetricsRet(before.pm, coll, uid, t)
             after == getPerformanceMetricsStore(before.pm, coll, uid, t)
             commonSubjects == commonSubjectsOf(preferences, candidateMetrics)
             compatibilityScore == calculateCompatibility(studentMetrics, candidateMetrics,
                                                          commonSubjects, preferences)
             match == [matchId |-> studentId \o "-" \o uid,
                       student1 |-> studentId,
                       student2 |-> uid,
                       commonSubjects |-> commonSubjects,
                       compatibilityScore |-> compatibilityScore,
                       studyPreferences |-> preferences,
                       matchedAt |-> t]
         IN  [pm |-> after,
              matches |-> IF candidateMetrics = NoRet THEN before.matches
                          ELSE IF Len(commonSubjects) = 0 THEN before.matches
                          ELSE IF compatibilityScore >= 60
                          THEN Append(before.matches, match)
                          ELSE before.matches]

\* a sort with the comparator (a, b) => a.compatibilityScore - b.compatibilityScore
sortByScoreAscending(matches) ==
    LET place(i) == Cardinality({j \in DOMAIN matches :
                        \/ matches[j].compatibilityScore < matches[i].compatibilityScore
                        \/ /\ matches[j].compatibilityScore = matches[i].compatibilityScore
                           /\ j < i}) + 1
    IN  [k \in DOMAIN matches |-> matches[CHOOSE i \in DOMAIN matches : place(i) = k]]

\* matches.sort((a, b) => b.compatibilityScore - a.compatibilityScore): stable,
\* the higher score first
sortByScore(matches) ==
    LET place(i) == Cardinality({j \in DOMAIN matches :
                        \/ matches[j].compatibilityScore > matches[i].compatibilityScore
                        \/ /\ matches[j].compatibilityScore = matches[i].compatibilityScore
                           /\ j < i}) + 1
    IN  [k \in DOMAIN matches |-> matches[CHOOSE i \in DOMAIN matches : place(i) = k]]

\* the collection "studyMatches" after the first n of the matches were saved
RECURSIVE matchesSaved(_, _, _)
matchesSaved(sm, matches, n) ==
    IF n = 0 THEN sm
    ELSE setDoc(matchesSaved(sm, matches, n - 1), matches[n].matchId, matches[n])

findStudyMatches(studentId, preferences) ==
    LET candidates == SelectSeq(UidOrder, LAMBDA u :
                          /\ u \in DOMAIN users
                          /\ users[u].role = "student"
                          /\ u # studentId)
        studentMetrics == getPerformanceMetricsRet(performanceMetrics, progress, studentId, now)
        loaded == getPerformanceMetricsStore(performanceMetrics, progress, studentId, now)
        scan == scanCandidates(candidates, Len(candidates), studentId, studentMetrics,
                               preferences, loaded, progress, now)
        sorted == sortByScore(scan.matches)
        top == SubSeq(sorted, 1, Min(5, Len(sorted)))
    IN  /\ IF studentMetrics = NoRet
           THEN /\ ret' = <<>>
                /\ performanceMetrics' = loaded
                /\ studyMatches' = studyMatches
                /\ call' = [op |-> "findStudyMatches", studentId |-> studentId,
                            preferences |-> preferences, saved |-> <<>>]
           ELSE /\ ret' = top
                /\ performanceMetrics' = scan.pm
                /\ studyMatches' = matchesSaved(studyMatches, top, Len(top))
                /\ call' = [op |-> "findStudyMatches", studentId |-> studentId,
                            preferences |-> preferences,
                            saved |-> [i \in DOMAIN top |-> top[i].matchId]]
        /\ UNCHANGED <<now, progress, learningGaps, users, rest, prior>>

\* an error path that saves the matches pushed before the failure
studyMatchesOnErrorSaving(sm, matches) ==
    LET top == SubSeq(matches, 1, Min(5, Len(matches)))
    IN  [k \in DOMAIN sm \cup {top[i].matchId : i \in DOMAIN top} |->
            IF \E i \in DOMAIN top : top[i].matchId = k
            THEN top[CHOOSE i \in DOMAIN top : top[i].matchId = k]
            ELSE sm[k]]

\* the collection "studyMatches" when the loop of lines 45-80 throws: the
\* save loop of lines 86-89 is never reached
studyMatchesOnError(sm, matches) == sm

\* findStudyMatches when the lookup of the n-th candidate rejects; the lookup
\* computes a missing snapshot, and its write may have reached the store
findStudyMatchesFails(studentId, preferences, n, written) ==
    LET candidates == SelectSeq(UidOrder, LAMBDA u :
                          /\ u \in DOMAIN users
                          /\ users[u].role = "student"
                          /\ u # studentId)
        studentMetrics == getPerformanceMetricsRet(performanceMetrics, progress, studentId, now)
        loaded == getPerformanceMetricsStore(performanceMetrics, progress, studentId, now)
        scan == scanCandidates(candidates, n - 1, studentId, studentMetrics,
                               preferences, loaded, progress, now)
    IN  /\ studentMetrics # NoRet
        /\ n \in DOMAIN candidates
        /\ ret' = [error |-> "getPerformanceMetrics"]
        /\ performanceMetrics' =
               IF written
               THEN getPerformanceMetricsStore(scan.pm, progress, candidates[n], now)
               ELSE scan.pm
        /\ studyMatches' = studyMatchesOnError(studyMatches, scan.matches)
        /\ call' = [op |-> "findStudyMatches", studentId |-> studentId,
                    preferences |-> preferences, saved |-> <<>>,
                    failed |-> candidates[n], pushed |-> Len(scan.matches)]
        /\ UNCHANGED <<now, progress, learningGaps, users, rest, prior>>

\* one call of calculateCompatibility with the arguments of `call`
calculateCompatibilityCall ==
    /\ call.op = "calculateCompatibility"
    /\ ret = NoRet
    /\ ret' = [value |-> calculateCompatibility(call.metrics1, call.metrics2,
                                                call.commonSubjects, call.preferences)]
    /\ UNCHANGED <<now, progress, performanceMetrics, learningGaps, studyMatches,
                   users, rest, call, prior>>

----------------------------------------------------------------------------
(* DifficultyAdjuster.                                                     *)

\* a rule that asks for an average above 80 to leave the beginner level
adjustDifficultyStrict(currentDifficulty, recentPerformance, metrics) ==
    IF Len(recentPerformance) < 3 THEN currentDifficulty
    ELSE LET n == Len(recentPerformance)
             avgScore == Rat(SumSeq([i \in 1..n |-> recentPerformance[i].score]), n)
             avgAttempts == Rat(SumSeq([i \in 1..n |-> recentPerformance[i].attempts]), n)
         IN  IF currentDifficulty = "beginner"
             THEN IF /\ RatLt(RatInt(80), avgScore)
                     /\ RatLe(avgAttempts, Rat(15, 10))
                     /\ metrics.consistency >= 70
                  THEN "intermediate" ELSE currentDifficulty
             ELSE IF currentDifficulty = "intermediate"
             THEN IF /\ RatLe(RatInt(85), avgScore)
                     /\ RatLe(avgAttempts, Rat(13, 10))
                     /\ metrics.consistency >= 80
                  THEN "advanced"
                  ELSE IF RatLt(avgScore, RatInt(60)) \/ RatLt(Rat(25, 10), avgAttempts)
                  THEN "beginner" ELSE currentDifficulty
             ELSE IF currentDifficulty = "advanced"
             THEN IF RatLt(avgScore, RatInt(70)) \/ RatLt(RatInt(2), avgAttempts)
                  THEN "intermediate" ELSE currentDifficulty
             ELSE currentDifficulty

\* a rule whose drop from the advanced level overlaps the rise to it
adjustDifficultyOverlapping(currentDifficulty, recentPerformance, metrics) ==
    IF Len(recentPerformance) < 3 THEN currentDifficulty
    ELSE LET n == Len(recentPerformance)
             avgScore == Rat(SumSeq([i \in 1..n |-> recentPerformance[i].score]), n)
             avgAttempts == Rat(SumSeq([i \in 1..n |-> recentPerformance[i].attempts]), n)
         IN  IF currentDifficulty = "beginner"
             THEN IF /\ RatLe(RatInt(80), avgScore)
                     /\ RatLe(avgAttempts, Rat(15, 10))
                     /\ metrics.consistency >= 70
                  THEN "intermediate" ELSE currentDifficulty
             ELSE IF currentDifficulty = "intermediate"
             THEN IF /\ RatLe(RatInt(85), avgScore)
                     /\ RatLe(avgAttempts, Rat(13, 10))
                     /\ metrics.consistency >= 80
                  THEN "advanced"
                  ELSE IF RatLt(avgScore, RatInt(60)) \/ RatLt(Rat(25, 10), avgAttempts)
                  THEN "beginner" ELSE currentDifficulty
             ELSE IF currentDifficulty = "advanced"
             THEN IF RatLt(avgScore, RatInt(95)) \/ RatLt(RatInt(2), avgAttempts)
                  THEN "intermediate" ELSE currentDifficulty
             ELSE currentDifficulty

adjustDifficulty(currentDifficulty, recentPerformance, metrics) ==
    IF Len(recentPerformance) < 3 THEN currentDifficulty
    ELSE LET n == Len(recentPerformance)
             avgScore == Rat(SumSeq([i \in 1..n |-> recentPerformance[i].score]), n)
             avgAttempts == Rat(SumSeq([i \in 1..n |-> recentPerformance[i].attempts]), n)
         IN  IF currentDifficulty = "beginner"
             THEN IF /\ RatLe(RatInt(80), avgScore)
                     /\ RatLe(avgAttempts, Rat(15, 10))
                     /\ metrics.consistency >= 70
                  THEN "intermediate" ELSE currentDifficulty
             ELSE IF currentDifficulty = "intermediate"
             THEN IF /\ RatLe(RatInt(85), avgScore)
                     /\ RatLe(avgAttempts, Rat(13, 10))
                     /\ metrics.consistency >= 80
                  THEN "advanced"
                  ELSE IF RatLt(avgScore, RatInt(60)) \/ RatLt(Rat(25, 10), avgAttempts)
                  THEN "beginner" ELSE currentDifficulty
             ELSE IF currentDifficulty = "advanced"
             THEN IF RatLt(avgScore, RatInt(70)) \/ RatLt(RatInt(2), avgAttempts)
                  THEN "intermediate" ELSE currentDifficulty
             ELSE currentDifficulty

\* one call of adjustDifficulty with the arguments of `call`
adjustDifficultyCall ==
    /\ call.op = "adjustDifficulty"
    /\ ret = NoRet
    /\ ret' = [value |-> adjustDifficulty(call.currentDifficulty, call.recentPerformance,
                                           call.metrics)]
    /\ UNCHANGED <<now, progress, performanceMetrics, learningGaps, studyMatches,
                   users, rest, call, prior>>

\* adjustDifficulty applied to the level the application before returned, with
\* the recent events and the metrics of `call`; call.path lists the levels
adjustDifficultyAgain ==
    LET current == call.path[Len(call.path)]
        level == adjustDifficulty(current, call.recentPerformance, call.metrics)
    IN  /\ call.op = "adjustDifficulty"
        /\ Len(call.path) <= MaxFeedback
        /\ ret' = [value |-> level]
        /\ call' = [call EXCEPT !.currentDifficulty = current, !.path = Append(@, level)]
        /\ UNCHANGED <<now, progress, performanceMetrics, learningGaps, studyMatches,
                       users, rest, prior>>

\* A double near a multiple of 0.1: tenths/10 when ulp = 0, the double one
\* unit in the last place above (ulp = 1) or below (ulp = -1) it otherwise.
Tenths(n) == [tenths |-> n, ulp |-> 0]

FloatLe(a, b) == a.tenths < b.tenths \/ (a.tenths = b.tenths /\ a.ulp <= b.ulp)

FloatMax(a, b) == IF FloatLe(b, a) THEN a ELSE b

FloatMin(a, b) == IF FloatLe(a, b) THEN a ELSE b

\* multiplier += d/10 in IEEE-754 doubles, for the operands the function meets:
\* 1.1 - 0.2 = 0.9000000000000001, 0.7 + 0.2 = 0.8999999999999999 and
\* 0.7 - 0.2 = 0.49999999999999994; every other sum is the double nearest to
\* the decimal result
FloatAddTenths(a, d) ==
    [tenths |-> a.tenths + d,
     ulp |-> CASE a = Tenths(11) /\ d = -2 -> 1
               [] a = Tenths(7) /\ d = 2 -> -1
               [] a = Tenths(7) /\ d = -2 -> -1
               [] OTHER -> a.ulp]

\* a multiplier returned without the final Math.max / Math.min
getLearningSpeadMultiplierUnclamped(metrics) ==
    LET byScore == IF RatLe(RatInt(85), metrics.overallScore) THEN FloatAddTenths(Tenths(10), 3)
                   ELSE IF RatLe(RatInt(70), metrics.overallScore) THEN FloatAddTenths(Tenths(10), 1)
                   ELSE IF RatLt(metrics.overallScore, RatInt(50)) THEN FloatAddTenths(Tenths(10), -3)
                   ELSE Tenths(10)
    IN  IF metrics.consistency >= 80 THEN FloatAddTenths(byScore, 2)
        ELSE IF metrics.consistency < 40 THEN FloatAddTenths(byScore, -2)
        ELSE byScore

getLearningSpeadMultiplier(metrics) ==
    LET byScore == IF RatLe(RatInt(85), metrics.overallScore) THEN FloatAddTenths(Tenths(10), 3)
                   ELSE IF RatLe(RatInt(70), metrics.overallScore) THEN FloatAddTenths(Tenths(10), 1)
                   ELSE IF RatLt(metrics.overallScore, RatInt(50)) THEN FloatAddTenths(Tenths(10), -3)
                   ELSE Tenths(10)
        multiplier == IF metrics.consistency >= 80 THEN FloatAddTenths(byScore, 2)
                      ELSE IF metrics.consistency < 40 THEN FloatAddTenths(byScore, -2)
                      ELSE byScore
    IN  FloatMax(Tenths(5), FloatMin(Tenths(15), multiplier))

\* one call of getLearningSpeadMultiplier with the arguments of `call`
getLearningSpeadMultiplierCall ==
    /\ call.op = "getLearningSpeadMultiplier"
    /\ ret = NoRet
    /\ ret' = [value |-> getLearningSpeadMultiplier(call.metrics)]
    /\ UNCHANGED <<now, progress, performanceMetrics, learningGaps, studyMatches,
                   users, rest, call, prior>>

----------------------------------------------------------------------------
(* AnalyticsService.                                                       *)

\* a ladder whose first rung asks for more than 90
calculateOverallGradeStrict(score) ==
    IF RatLt(RatInt(90), score) THEN "A+"
    ELSE IF RatLe(RatInt(85), score) THEN "A"
    ELSE IF RatLe(RatInt(80), score) THEN "B+"
    ELSE IF RatLe(RatInt(75), score) THEN "B"
    ELSE IF RatLe(RatInt(70), score) THEN "C+"
    ELSE IF RatLe(RatInt(65), score) THEN "C"
    ELSE IF RatLe(RatInt(60), score) THEN "D"
    ELSE "F"

calculateOverallGrade(score) ==
    IF RatLe(RatInt(90), score) THEN "A+"
    ELSE IF RatLe(RatInt(85), score) THEN "A"
    ELSE IF RatLe(RatInt(80), score) THEN "B+"
    ELSE IF RatLe(RatInt(75), score) THEN "B"
    ELSE IF RatLe(RatInt(70), score) THEN "C+"
    ELSE IF RatLe(RatInt(65), score) THEN "C"
    ELSE IF RatLe(RatInt(60), score) THEN "D"
    ELSE "F"

\* the grade of a subject report: `let grade = "F"` and the else-if chain
subjectGrade(avgScore) ==
    LET rungs == <<[least |-> 90, grade |-> "A+"], [least |-> 85, grade |-> "A"],
                   [least |-> 80, grade |-> "B+"], [least |-> 75, grade |-> "B"],
                   [least |-> 70, grade |-> "C+"], [least |-> 65, grade |-> "C"],
                   [least |-> 60, grade |-> "D"]>>
        taken == {i \in DOMAIN rungs : RatLe(RatInt(rungs[i].least), avgScore)}
    IN  IF taken = {} THEN "F"
        ELSE rungs[CHOOSE i \in taken : \A j \in taken : i <= j].grade

\* one call of calculateOverallGrade with the score of `call`
calculateOverallGradeCall ==
    /\ call.op = "grade"
    /\ ret' = [value |-> calculateOverallGrade(call.score), by |-> "calculateOverallGrade"]
    /\ UNCHANGED <<now, progress, performanceMetrics, learningGaps, studyMatches,
                   users, rest, call, prior>>

\* the grade a subject report gets for the average score of `call`
subjectGradeCall ==
    /\ call.op = "grade"
    /\ ret' = [value |-> subjectGrade(call.score), by |-> "generateStudentReport"]
    /\ UNCHANGED <<now, progress, performanceMetrics, learningGaps, studyMatches,
                   users, rest, call, prior>>

\* no insight on the learning pace, whatever the velocity
paceAdviceNever(metrics, t) == <<>>

\* the insight of lines 78-90
paceAdvice(metrics, t) ==
    IF metrics.learningVelocity < 3
    THEN <<[type |-> "recommendation",
            title |-> "Increase Learning Pace",
            description |-> "Try to cover more topics each week for faster progress.",
            actionItems |-> <<"Allocate more study time each day",
                              "Break complex topics into smaller parts",
                              "Use active learning techniques">>,
            createdAt |-> t]>>
    ELSE <<>>

\* the insights pushed for a snapshot, in the order of lines 32-90
insightsOf(metrics, gaps, t) ==
    LET achievement(strength) ==
            [type |-> "achievement",
             title |-> "Excelling in " \o strength,
             description |-> "You're performing excellently in " \o strength
                                \o "! Keep up the great work.",
             actionItems |-> <<"Consider helping peers with " \o strength,
                               "Try advanced materials to challenge yourself">>,
             createdAt |-> t]
        weakness(subject) ==
            LET relatedGaps == SelectSeq(gaps, LAMBDA g : g.subject = subject)
            IN  [type |-> "weakness",
                 title |-> "Improvement needed in " \o subject,
                 description |-> "Focus on strengthening your understanding of "
                                    \o subject \o ".",
                 actionItems |-> IF Len(relatedGaps) > 0
                                 THEN relatedGaps[1].suggestedResources
                                 ELSE <<"Schedule dedicated study time for " \o subject,
                                        "Seek help from teacher or tutor",
                                        "Practice with additional exercises">>,
                 createdAt |-> t]
        consistencyAdvice ==
            [type |-> "recommendation",
             title |-> "Improve Study Consistency",
             description |-> "Regular study sessions lead to better retention and understanding.",
             actionItems |-> <<"Set a daily study schedule", "Use calendar reminders",
                               "Start with small, manageable sessions">>,
             createdAt |-> t]
    IN  [i \in DOMAIN metrics.strengths |-> achievement(metrics.strengths[i])]
            \o [i \in DOMAIN metrics.weaknesses |-> weakness(metrics.weaknesses[i])]
            \o (IF metrics.consistency < 50 THEN <<consistencyAdvice>> ELSE <<>>)
            \o paceAdvice(metrics, t)

generateInsights(studentId) ==
    LET metrics == getPerformanceMetricsRet(performanceMetrics, progress, studentId, now)
        gaps == gapsOf(progress, studentId, now)
        listed == insightsOf(metrics, gaps, now)
    IN  /\ performanceMetrics' =
               getPerformanceMetricsStore(performanceMetrics, progress, studentId, now)
        /\ learningGaps' = gapsSaved(learningGaps, gaps, Len(gaps))
        /\ IF metrics = NoRet
           THEN /\ ret' = <<>>
                /\ insights' = insights
           ELSE /\ ret' = listed
                /\ insights' = setDoc(insights, studentId,
                                      [studentId |-> studentId, insights |-> listed,
                                       generatedAt |-> now])
        /\ call' = [op |-> "generateInsights", studentId |-> studentId]
        /\ UNCHANGED <<now, progress, studyMatches, users, prior, reports,
                       privacySettings, pending, auth>>

\* one SubjectReport of lines 137-165
SubjectReport(subject, progressList, metrics) ==
    LET avgScore == Rat(SumSeq([i \in DOMAIN progressList |-> progressList[i].score]),
                        Len(progressList))
        topicsCompleted == Cardinality({progressList[i].topic : i \in DOMAIN progressList})
    IN  [subject |-> subject,
         grade |-> subjectGrade(avgScore),
         score |-> avgScore,
         topicsCompleted |-> topicsCompleted,
         topicsTotal |-> topicsCompleted + 5,
         strengths |-> IF subject \in Range(metrics.strengths)
                       THEN <<"Consistent performance", "Good understanding">> ELSE <<>>,
         improvements |-> IF subject \in Range(metrics.weaknesses)
                          THEN <<"Needs more practice", "Review fundamentals">> ELSE <<>>]

\* `${studentId}-${Date.now()}`
reportIdOf(studentId, t) == studentId \o "-" \o ToString(t)

\* the report of lines 121-181
StudentReport(studentId, startDate, endDate, prog, metrics, t) ==
    LET periodProgress == SelectSeq(prog, LAMBDA p :
                              p.completedAt >= startDate /\ p.completedAt <= endDate)
        keys == subjectKeys(periodProgress)
    IN  [studentId |-> studentId,
         reportId |-> reportIdOf(studentId, t),
         period |-> [start |-> startDate, end |-> endDate],
         overallGrade |-> calculateOverallGrade(metrics.overallScore),
         subjects |-> [k \in DOMAIN keys |->
                          SubjectReport(keys[k],
                                        SelectSeq(periodProgress,
                                                  LAMBDA p : p.subject = keys[k]),
                                        metrics)],
         attendance |-> 85,
         behavioralNotes |-> <<"Engaged in class", "Participates actively">>,
         recommendations |->
             Append([i \in DOMAIN metrics.weaknesses |->
                        "Focus on improving " \o metrics.weaknesses[i]],
                    "Maintain current study habits for strong subjects"),
         generatedAt |-> t]

\* what a call without metrics leaves in "reports" when it stores a blank report
reportsWithoutMetricsBlank(coll, studentId, t) ==
    setDoc(coll, reportIdOf(studentId, t), [studentId |-> studentId])

\* the collection "reports" after the throw of line 118
reportsWithoutMetrics(coll, studentId, t) == coll

generateStudentReport(studentId, startDate, endDate) ==
    LET prog == getStudentProgress(progress, studentId)
        metrics == getPerformanceMetricsRet(performanceMetrics, progress, studentId, now)
        report == StudentReport(studentId, startDate, endDate, prog, metrics, now)
    IN  /\ performanceMetrics' =
               getPerformanceMetricsStore(performanceMetrics, progress, studentId, now)
        /\ IF metrics = NoRet
           THEN /\ ret' = [error |-> "No performance data available"]
                /\ reports' = reportsWithoutMetrics(reports, studentId, now)
           ELSE /\ ret' = report
                /\ reports' = setDoc(reports, report.reportId, report)
        /\ call' = [op |-> "generateStudentReport", studentId |-> studentId,
                    startDate |-> startDate, endDate |-> endDate]
        /\ UNCHANGED <<now, progress, learningGaps, studyMatches, users, prior,
                       insights, privacySettings, pending, auth>>

\* one call of getStudentProgress
getStudentProgressCall(studentId) ==
    /\ ret' = getStudentProgress(progress, studentId)
    /\ call' = [op |-> "getStudentProgress", studentId |-> studentId]
    /\ UNCHANGED <<now, progress, performanceMetrics, learningGaps, studyMatches,
                   users, rest, prior>>

----------------------------------------------------------------------------
(* PrivacyShield.                                                          *)

defaultSettings(userId, t) ==
    [userId |-> userId,
     dataSharing |-> [analytics |-> TRUE, matchmaking |-> TRUE, teacherView |-> TRUE],
     dataRetention |-> [progressHistory |-> 365, activityLogs |-> 90],
     encryption |-> [enabled |-> TRUE, sensitiveFields |-> <<"email", "displayName">>],
     lastUpdated |-> t]

\* the collection "privacySettings" after initializePrivacySettings
initializePrivacySettings(ps, userId, t) == setDoc(ps, userId, defaultSettings(userId, t))

\* a read that writes the defaults again
getPrivacySettingsStoreAlways(ps, userId, t) == initializePrivacySettings(ps, userId, t)

\* the collection "privacySettings" after getPrivacySettings
getPrivacySettingsStore(ps, userId, t) ==
    IF userId \in DOMAIN ps THEN ps ELSE initializePrivacySettings(ps, userId, t)

getPrivacySettings(userId) ==
    LET stored == getPrivacySettingsStore(privacySettings, userId, now)
    IN  /\ privacySettings' = stored
        /\ ret' = stored[userId]
        /\ call' = [op |-> "getPrivacySettings", userId |-> userId,
                    existed |-> userId \in DOMAIN privacySettings]
        /\ UNCHANGED <<now, progress, performanceMetrics, learningGaps, studyMatches,
                       users, prior, reports, insights, pending, auth>>

\* setDoc(ref, {...updates, lastUpdated}, {merge: true})
updatePrivacySettings(userId, updates) ==
    LET old == IF userId \in DOMAIN privacySettings THEN privacySettings[userId] ELSE <<>>
        fields == DOMAIN old \cup DOMAIN updates \cup {"lastUpdated"}
        merged == [f \in fields |->
                      IF f = "lastUpdated" THEN now
                      ELSE IF f \in DOMAIN updates THEN updates[f] ELSE old[f]]
    IN  /\ privacySettings' = setDoc(privacySettings, userId, merged)
        /\ ret' = NoRet
        /\ call' = [op |-> "updatePrivacySettings", userId |-> userId]
        /\ UNCHANGED <<now, progress, performanceMetrics, learningGaps, studyMatches,
                       users, prior, reports, insights, pending, auth>>

\* a cleanup that deletes the events of the user
progressAfterCleanupDeleting(coll, userId, progressCutoff) ==
    SelectSeq(coll, LAMBDA e : e.studentId # userId)

\* the collection "progress" after cleanupOldData: the cutoff is only logged
progressAfterCleanup(coll, userId, progressCutoff) == coll

cleanupOldData(userId) ==
    LET stored == getPrivacySettingsStore(privacySettings, userId, now)
        settings == stored[userId]
    IN  /\ privacySettings' = stored
        /\ IF "dataRetention" \in DOMAIN settings
           THEN /\ ret' = NoRet
                /\ progress' = progressAfterCleanup(progress, userId,
                                   DaysAgo(now, settings.dataRetention.progressHistory))
           ELSE /\ ret' = [error |-> "TypeError"]
                /\ progress' = progress
        /\ call' = [op |-> "cleanupOldData", userId |-> userId]
        /\ UNCHANGED <<now, performanceMetrics, learningGaps, studyMatches,
                       users, prior, reports, insights, pending, auth>>

----------------------------------------------------------------------------
(* AuthContext.  A signed-in user is the record of its uid; the collection *)
(* "users" holds the profile documents.                                   *)

\* the fields getUserProfile copies from the document
ProfileFields ==
    {"email", "displayName", "role", "createdAt", "lastLogin", "grade", "subjects", "avatar"}

\* getUserProfile (lines 81-104): the profile built from the document, null
\* when there is none and, through the catch, when getDoc rejects; a field the
\* document lacks is undefined in the profile and left out here
getUserProfile(coll, uid, lookup) ==
    IF lookup = "error" THEN Null
    ELSE IF uid \in DOMAIN coll
    THEN [k \in {"uid"} \cup (DOMAIN coll[uid] \cap ProfileFields) |->
             IF k = "uid" THEN uid ELSE coll[uid][k]]
    ELSE Null

\* updateLastLogin (lines 106-113): setDoc with merge; a rejection is caught
updateLastLogin(coll, uid, t, write) ==
    IF write = "error" THEN coll
    ELSE LET old == IF uid \in DOMAIN coll THEN coll[uid] ELSE <<>>
         IN  setDoc(coll, uid, [k \in DOMAIN old \cup {"lastLogin"} |->
                                   IF k = "lastLogin" THEN t ELSE old[k]])

\* the auth-state callback of lines 65-76 is called with user u and runs to
\* its first await: setUser, then the profile lookup is started or, for a
\* null user, the profile is cleared and loading ends
onAuthStateChanged(u) ==
    LET cb == auth.notified + 1
    IN  /\ auth.notified < MaxNotifications
        /\ auth.notified = 0 \/ u # auth.user
        /\ IF u # Null
           THEN /\ auth' = [auth EXCEPT !.user = u, !.notified = cb]
                /\ pending' = setDoc(pending, cb, [at |-> "getUserProfile", uid |-> u.uid])
           ELSE /\ auth' = [auth EXCEPT !.user = Null, !.userProfile = Null,
                                        !.loading = FALSE, !.notified = cb]
                /\ pending' = pending
        /\ call' = [op |-> "onAuthStateChanged", user |-> u]
        /\ ret' = NoRet
        /\ UNCHANGED <<now, progress, performanceMetrics, learningGaps, studyMatches,
                       users, prior, reports, insights, privacySettings>>

\* callback cb resumes after `await getUserProfile` (lines 68-69):
\* setUserProfile, then updateLastLogin is started
onAuthStateChangedGetDoc(cb, lookup) ==
    /\ cb \in DOMAIN pending
    /\ pending[cb].at = "getUserProfile"
    /\ auth' = [auth EXCEPT !.userProfile = getUserProfile(users, pending[cb].uid, lookup)]
    /\ pending' = setDoc(pending, cb, [at |-> "updateLastLogin", uid |-> pending[cb].uid])
    /\ UNCHANGED <<now, progress, performanceMetrics, learningGaps, studyMatches,
                   users, call, ret, prior, reports, insights, privacySettings>>

\* callback cb resumes after `await updateLastLogin` (lines 71, 75) and ends
onAuthStateChangedSetDoc(cb, write) ==
    /\ cb \in DOMAIN pending
    /\ pending[cb].at = "updateLastLogin"
    /\ users' = updateLastLogin(users, pending[cb].uid, now, write)
    /\ auth' = [auth EXCEPT !.loading = FALSE]
    /\ pending' = [c \in DOMAIN pending \ {cb} |-> pending[c]]
    /\ UNCHANGED <<now, progress, performanceMetrics, learningGaps, studyMatches,
                   call, ret, prior, reports, insights, privacySettings>>

\* the collection "users" after signInWithGoogle (lines 149-160) for the user
\* the popup returned; a displayName of null is the empty string here, falsy
\* as well
usersAfterGoogleSignIn(coll, uid, email, displayName, lookup, t) ==
    LET existingProfile == getUserProfile(coll, uid, lookup)
        userProfile == [email |-> email,
                        displayName |-> IF displayName = "" THEN email ELSE displayName,
                        role |-> "student",
                        createdAt |-> t,
                        lastLogin |-> t]
    IN  IF existingProfile = Null THEN setDoc(coll, uid, userProfile) ELSE coll

signInWithGoogle(uid, email, displayName, lookup) ==
    /\ users' = usersAfterGoogleSignIn(users, uid, email, displayName, lookup, now)
    /\ ret' = NoRet
    /\ call' = [op |-> "signInWithGoogle", uid |-> uid, lookup |-> lookup]
    /\ UNCHANGED <<now, progress, performanceMetrics, learningGaps, studyMatches,
                   prior, rest>>

----------------------------------------------------------------------------
\* time passes between two calls
Tick(d, horizon) ==
    /\ now + d <= horizon
    /\ now' = now + d
    /\ UNCHANGED <<progress, performanceMetrics, learningGaps, studyMatches,
                   users, rest, call, ret, prior>>

----------------------------------------------------------------------------
(* The metrics pipeline: events of two students, recorded one at a time.   *)

Students == {"s1", "s2"}

Subjects == {"Math", "Art"}

Scores == {0, 100, 150}

TickSteps == {7 * DayLen + 1}

\* no report, no insight batch, no privacy settings, no call in flight, the
\* AuthProvider as its useState calls leave it (lines 59-61)
EmptyRest ==
    /\ reports = <<>>
    /\ insights = <<>>
    /\ privacySettings = <<>>
    /\ pending = <<>>
    /\ auth = [user |-> Null, userProfile |-> Null, loading |-> TRUE, notified |-> 0]

EmptyStore ==
    /\ now = 0
    /\ progress = <<>>
    /\ performanceMetrics = <<>>
    /\ learningGaps = <<>>
    /\ studyMatches = <<>>
    /\ users = [u \in Students |-> [role |-> "student"]]
    /\ prior = <<>>
    /\ EmptyRest

Init ==
    /\ EmptyStore
    /\ call = NoCall
    /\ ret = NoRet

Next ==
    \/ \E s \in Students, subj \in Subjects, sc \in Scores :
          recordProgress(s, subj, "t", sc, 1, "beginner")
    \/ \E s \in Students : updatePerformanceMetrics(s)
    \/ \E s \in Students : getPerformanceMetrics(s)
    \/ \E d \in TickSteps : Tick(d, MaxTime)

Spec == Init /\ [][Next]_vars

----------------------------------------------------------------------------
(* Properties of the metrics pipeline.                                     *)

\* the events of a student, as the store holds them
EventsOf(s) == SelectSeq(progress, LAMBDA e : e.studentId = s)

EventsOn(s, subj) == SelectSeq(EventsOf(s), LAMBDA e : e.subject = subj)

ScoreList(evs) == [i \in DOMAIN evs |-> evs[i].score]

\* r is the arithmetic mean of the scores of evs
IsMeanOf(r, evs) == Len(evs) > 0 /\ r.n * Len(evs) = r.d * SumSeq(ScoreList(evs))

InRange(r) == RatLe(RatInt(0), r) /\ RatLe(r, RatInt(100))

\* C1: with calls that run one at a time, a student with events has a
\* persisted snapshot, and its overallScore is the arithmetic mean of the
\* scores of all of that student's events, the one just recorded included.
C1_OverallScoreIsMean ==
    \A s \in Students :
        /\ Len(EventsOf(s)) > 0 => s \in DOMAIN performanceMetrics
        /\ s \in DOMAIN performanceMetrics =>
               IsMeanOf(performanceMetrics[s].overallScore, EventsOf(s))

C1_Witness ==
    /\ call.op = "recordProgress"
    /\ Len(EventsOf(call.studentId)) = 2
    /\ EventsOf(call.studentId)[1].score # EventsOf(call.studentId)[2].score
    /\ performanceMetrics[call.studentId].overallScore = RatInt(50)

\* C2: for every subject s occurring in a student's history, the recomputed
\* subjectScores[s] is the arithmetic mean of the scores of exactly the events
\* whose subject is s, for every order of the events and every score, 0 included.
C2_SubjectScoreIsMean ==
    \A s \in DOMAIN performanceMetrics :
        \A subj \in {e.subject : e \in Range(EventsOf(s))} :
            /\ subj \in DOMAIN performanceMetrics[s].subjectScores
            /\ IsMeanOf(performanceMetrics[s].subjectScores[subj], EventsOn(s, subj))

\* C8 as stated: every persisted snapshot has overallScore and every
\* subjectScores value within [0,100], whatever scores were recorded.
C8_ScoresInRange ==
    \A s \in DOMAIN performanceMetrics :
        /\ InRange(performanceMetrics[s].overallScore)
        /\ \A subj \in DOMAIN performanceMetrics[s].subjectScores :
               InRange(performanceMetrics[s].subjectScores[subj])

\* C8 (amended): when every recorded score of a student lies in [0,100], the
\* student's persisted snapshot has overallScore and every subjectScores value
\* within [0,100].
C8_ScoresInRangeForValidInput ==
    \A s \in DOMAIN performanceMetrics :
        (\A e \in Range(EventsOf(s)) : e.score \in 0..100) =>
            /\ InRange(performanceMetrics[s].overallScore)
            /\ \A subj \in DOMAIN performanceMetrics[s].subjectScores :
                   InRange(performanceMetrics[s].subjectScores[subj])

C8_Witness ==
    /\ call.op = "recordProgress"
    /\ Len(EventsOf(call.studentId)) = 2
    /\ \A e \in Range(EventsOf(call.studentId)) : e.score = 100
    /\ \E subj \in Subjects :
          /\ DOMAIN performanceMetrics[call.studentId].subjectScores = {subj}
          /\ performanceMetrics[call.studentId].subjectScores[subj] = RatInt(100)

----------------------------------------------------------------------------
(* Recomputation over a longer history: the store holds the events one     *)
(* student recorded earlier and the snapshot the last of them left; the    *)
(* snapshot is recomputed as time passes.                                  *)

HistoryTimes == <<0, DayLen + 1, 31 * DayLen>>

\* c events stamped t
Block(t, c) == [i \in 1..c |-> StudentProgress("s1", "Math", "t", 80, 1, "beginner", t)]

\* c[k] events at HistoryTimes[k], newest first
Clustered(c) ==
    Block(HistoryTimes[3], c[3]) \o Block(HistoryTimes[2], c[2]) \o Block(HistoryTimes[1], c[1])

\* one event at the last instant of each of the days k down to 0
Daily(k) ==
    [i \in 1..(k + 1) |->
        StudentProgress("s1", "Math", "t", 80, 1, "beginner", (k + 1 - i) * DayLen + DayLen - 1)]

Histories ==
    {Clustered(c) : c \in {c \in [1..3 -> 0..MaxHistory] : c[1] + c[2] + c[3] <= MaxHistory}}
        \cup {Daily(k) : k \in 0..MaxRun}

RecomputeSteps == {7 * DayLen + 1, 30 * DayLen + 1}

InitRecompute ==
    /\ progress \in Histories
    /\ now = IF progress = <<>> THEN 0 ELSE progress[1].completedAt
    /\ performanceMetrics = metricsWritten(<<>>, progress, "s1", now)
    /\ learningGaps = <<>>
    /\ studyMatches = <<>>
    /\ users = [u \in Students |-> [role |-> "student"]]
    /\ prior = <<>>
    /\ EmptyRest
    /\ call = NoCall
    /\ ret = NoRet

NextRecompute ==
    \/ \E s \in Students : updatePerformanceMetrics(s)
    \/ \E d \in RecomputeSteps : Tick(d, RecomputeEnd)

SpecRecompute == InitRecompute /\ [][NextRecompute]_vars

\* the two snapshots agree in the fields computed from the scores alone
SameScores(a, b) ==
    /\ a.studentId = b.studentId
    /\ a.overallScore = b.overallScore
    /\ a.subjectScores = b.subjectScores
    /\ a.strengths = b.strengths
    /\ a.weaknesses = b.weaknesses

\* an event of s was in the trailing n days at t1 and is not at t2
LeftWindow(s, n, t1, t2) ==
    \E e \in Range(EventsOf(s)) :
        /\ e.completedAt >= t1 - n * DayLen
        /\ e.completedAt < t2 - n * DayLen

\* C7 as stated: two recomputations in sequence with no event recorded in
\* between persist snapshots that are equal in every field but lastUpdated.
C7_RecomputeIdempotent ==
    \A s \in DOMAIN prior :
        /\ SameScores(prior[s], performanceMetrics[s])
        /\ prior[s].learningVelocity = performanceMetrics[s].learningVelocity
        /\ prior[s].consistency = performanceMetrics[s].consistency

\* C7 (amended): two recomputations in sequence with no event recorded in
\* between persist snapshots with equal overallScore, subjectScores, strengths
\* and weaknesses; learningVelocity is equal too unless an event left the
\* trailing 7 days between the two runs, and consistency unless an event left
\* the trailing 30 days.
C7_RecomputeIdempotentUpToClock ==
    \A s \in DOMAIN prior :
        LET a == prior[s]
            b == performanceMetrics[s]
        IN  /\ SameScores(a, b)
            /\ ~LeftWindow(s, 7, a.lastUpdated, b.lastUpdated) =>
                   a.learningVelocity = b.learningVelocity
            /\ ~LeftWindow(s, 30, a.lastUpdated, b.lastUpdated) =>
                   a.consistency = b.consistency

C7_Witness ==
    /\ call.op = "updatePerformanceMetrics"
    /\ call.studentId \in DOMAIN prior
    /\ prior[call.studentId].lastUpdated < performanceMetrics[call.studentId].lastUpdated
    /\ prior[call.studentId].consistency = performanceMetrics[call.studentId].consistency
    /\ performanceMetrics[call.studentId].consistency \notin {0, 50}
    /\ performanceMetrics[call.studentId].strengths = <<"Math">>

\* the calendar days on which s has an event within the 30 days before t
ActiveDays(s, t) ==
    {e.completedAt \div DayLen : e \in {e \in Range(EventsOf(s)) : e.completedAt >= t - 30 * DayLen}}

\* r is x/30 * 100 capped at 100 and rounded to the nearest integer (half up)
IsRoundedShare(r, x) ==
    IF x >= 30 THEN r = 100
    ELSE 60 * r <= 200 * x + 30 /\ 200 * x + 30 < 60 * (r + 1)

\* C9: the consistency of a recomputed snapshot is 50 when the student has
\* fewer than 7 events; with 7 or more it is 0 when no event lies in the
\* trailing 30 days and otherwise round(min(100, d / 30 * 100)) for d distinct
\* calendar days with an event in the trailing 30 days; it is an integer in
\* [0,100].
C9_Consistency ==
    \A s \in DOMAIN performanceMetrics :
        LET m == performanceMetrics[s]
            days == ActiveDays(s, m.lastUpdated)
        IN  /\ m.consistency \in 0..100
            /\ Len(EventsOf(s)) < 7 => m.consistency = 50
            /\ Len(EventsOf(s)) >= 7 /\ days = {} => m.consistency = 0
            /\ Len(EventsOf(s)) >= 7 /\ days # {} =>
                   IsRoundedShare(m.consistency, Cardinality(days))

C9_Witness ==
    /\ call.op = "updatePerformanceMetrics"
    /\ Len(EventsOf(call.studentId)) >= 7
    /\ Cardinality(ActiveDays(call.studentId, now)) = 2
    /\ performanceMetrics[call.studentId].lastUpdated = now
    /\ performanceMetrics[call.studentId].consistency = 7

C9_WitnessCapped ==
    /\ call.op = "updatePerformanceMetrics"
    /\ Len(EventsOf("s1")) >= 7
    /\ Cardinality(ActiveDays("s1", performanceMetrics["s1"].lastUpdated)) > 30
    /\ performanceMetrics["s1"].consistency = 100

----------------------------------------------------------------------------
(* Gap detection: events on subjects and topics whose names may hold a '-'. *)

GapSubjects == {"a", "a-b"}

GapTopics == {"c", "b-c"}

\* <<subject, topic>>; the first two share the key "a-b-c"
GapPairs == {<<"a-b", "c">>, <<"a", "b-c">>, <<"a", "c">>}

\* <<score, attempts>>
GapOutcomes == {<<30, 1>>, <<50, 3>>, <<70, 1>>, <<70, 3>>}

NextGaps ==
    \/ \E s \in Students, st \in GapPairs, o \in GapOutcomes :
          recordProgress(s, st[1], st[2], o[1], o[2], "beginner")
    \/ \E s \in Students : identifyLearningGaps(s)
    \/ \E d \in TickSteps : Tick(d, MaxTime)

SpecGaps == Init /\ [][NextGaps]_vars

Qualifies(e) == e.score < 60 \/ e.attempts > 2

\* the events of s on one (subject, topic) pair that are gap evidence
Evidence(s, subj, tp) ==
    SelectSeq(EventsOf(s), LAMBDA e : e.subject = subj /\ e.topic = tp /\ Qualifies(e))

GapsFor(gaps, subj, tp) == {i \in DOMAIN gaps : gaps[i].subject = subj /\ gaps[i].topic = tp}

\* C3: identifyLearningGaps returns a gap for a (subject, topic) pair if and
\* only if an event of the student with exactly that subject and topic has
\* score < 60 or attempts > 2, and exactly one gap per such pair, also for
\* names that contain '-'.
C3_GapIffEvidence ==
    call.op = "identifyLearningGaps" =>
        \A subj \in GapSubjects, tp \in GapTopics :
            Cardinality(GapsFor(ret, subj, tp)) =
                (IF Len(Evidence(call.studentId, subj, tp)) > 0 THEN 1 ELSE 0)

PriorityOfScore(score) ==
    IF score < 40 THEN "high" ELSE IF score < 60 THEN "medium" ELSE "low"

\* C10: the priority of each returned gap is that of the score of the first
\* qualifying event of its (subject, topic) pair in the newest-first scan: high
\* below 40, medium below 60, low otherwise; no later qualifying event of the
\* pair changes it, and no qualifying event of the pair is newer than that one.
C10_PriorityOfFirstEvidence ==
    call.op = "identifyLearningGaps" =>
        \A i \in DOMAIN ret :
            LET ev == Evidence(call.studentId, ret[i].subject, ret[i].topic)
            IN  /\ Len(ev) > 0
                /\ ret[i].priority = PriorityOfScore(ev[1].score)
                /\ \A j \in DOMAIN ev : ev[j].completedAt <= ev[1].completedAt

C10_Witness ==
    /\ call.op = "identifyLearningGaps"
    /\ Len(ret) = 1
    /\ ret[1].priority = "low"
    /\ LET ev == Evidence(call.studentId, ret[1].subject, ret[1].topic)
       IN  Len(ev) = 2 /\ ev[1].score = 70 /\ ev[2].score = 30
               /\ ev[2].completedAt < ev[1].completedAt

----------------------------------------------------------------------------
(* Matchmaking: eight users, seven of them students; each has recorded one *)
(* Math event or none, and the store holds the snapshots those left.       *)

MatchStudents == {"u1", "u2", "u3", "u4", "u5", "u6", "u7"}

MatchCallers == {"u1", "u2"}

MatchPreferences ==
    {[subjects |-> <<"Math">>], [subjects |-> <<"Math", "Art">>], [subjects |-> <<"Art">>]}

\* the Math score of a user's single event; -1: no event
MatchScores == {-1, 50, 70, 80}

\* the scores each user may start with
MatchScoresOf ==
    [u \in MatchStudents |->
        CASE u = "u1" -> {-1, 80}
          [] u = "u2" -> MatchScores
          [] u = "u3" -> {50, 80}
          [] u = "u4" -> {50, 70}
          [] u = "u7" -> {80}
          [] OTHER -> {70, 80}]

\* the events recorded when user u has Math score k[u]
RECURSIVE MatchEvents(_, _)
MatchEvents(k, n) ==
    IF n = 0 THEN <<>>
    ELSE LET u == UidOrder[n]
         IN  IF u \in DOMAIN k /\ k[u] >= 0
             THEN <<StudentProgress(u, "Math", "t", k[u], 1, "beginner", 0)>>
                      \o MatchEvents(k, n - 1)
             ELSE MatchEvents(k, n - 1)

InitMatch ==
    /\ now = 0
    /\ \E k \in {f \in [MatchStudents -> MatchScores] :
                    \A u \in MatchStudents : f[u] \in MatchScoresOf[u]} :
          LET scores == [u \in MatchStudents \cup {"u8"} |->
                            IF u = "u8" THEN 80 ELSE k[u]]
          IN  /\ progress = MatchEvents(scores, Len(UidOrder))
              /\ performanceMetrics =
                     [u \in {u \in DOMAIN scores : scores[u] >= 0} |->
                         computeMetrics(u, getStudentProgress(progress, u), 0)]
    /\ users = [u \in MatchStudents \cup {"u8"} |->
                   [role |-> IF u = "u8" THEN "teacher" ELSE "student"]]
    /\ learningGaps = <<>>
    /\ studyMatches = <<>>
    /\ prior = <<>>
    /\ EmptyRest
    /\ call = NoCall
    /\ ret = NoRet

NextMatch ==
    \E s \in MatchCallers, preferences \in MatchPreferences :
        findStudyMatches(s, preferences)

SpecMatch == InitMatch /\ [][NextMatch]_vars

\* C4: a call of findStudyMatches returns at most 5 matches, each with
\* compatibilityScore >= 60, in non-increasing order of compatibilityScore, and
\* the studyMatches documents it wrote are exactly the returned matches.
C4_TopFiveMatches ==
    call.op = "findStudyMatches" =>
        /\ Len(ret) <= 5
        /\ \A i \in DOMAIN ret : ret[i].compatibilityScore >= 60
        /\ \A i \in DOMAIN ret : \A j \in DOMAIN ret :
               i < j => ret[i].compatibilityScore >= ret[j].compatibilityScore
        /\ call.saved = [i \in DOMAIN ret |-> ret[i].matchId]
        /\ \A i \in DOMAIN ret : \A j \in DOMAIN ret : i # j => ret[i].matchId # ret[j].matchId
        /\ \A i \in DOMAIN ret :
               /\ ret[i].matchId \in DOMAIN studyMatches
               /\ studyMatches[ret[i].matchId] = ret[i]

\* six candidates reach 60; the five best are returned, the best first
C4_Witness ==
    /\ call.op = "findStudyMatches"
    /\ call.studentId = "u1"
    /\ call.preferences.subjects = <<"Math">>
    /\ \A u \in MatchStudents : u \in DOMAIN performanceMetrics
    /\ Len(ret) = 5
    /\ ret[1].compatibilityScore = 100
    /\ ret[5].compatibilityScore = 70
    /\ DOMAIN studyMatches = {ret[i].matchId : i \in DOMAIN ret}

----------------------------------------------------------------------------
(* calculateCompatibility on its own.                                      *)

CompatScores == {RatInt(0), RatInt(50), Rat(161, 2), Rat(250, 3), RatInt(100)}

CompatConsistency == {0, 50, 63, 100}

CompatSubjects == {"Math", "Art", "Bio"}

CompatPreferences ==
    {[subjects |-> <<"Math">>], [subjects |-> <<"Math", "Art">>],
     [subjects |-> <<"Math", "Art", "Bio">>]}

\* a snapshot with the given scores
Snapshot(studentId, overallScore, consistency, subjects) ==
    [studentId |-> studentId,
     overallScore |-> overallScore,
     subjectScores |-> [s \in subjects |-> overallScore],
     strengths |-> <<>>,
     weaknesses |-> <<>>,
     learningVelocity |-> 0,
     consistency |-> consistency,
     lastUpdated |-> 0]

InitCompat ==
    /\ EmptyStore
    /\ ret = NoRet
    /\ \E o1 \in CompatScores, o2 \in CompatScores,
          c1 \in CompatConsistency, c2 \in CompatConsistency,
          subjects \in SUBSET CompatSubjects, preferences \in CompatPreferences :
          LET metrics2 == Snapshot("s2", o2, c2, subjects)
          IN  call = [op |-> "calculateCompatibility",
                      metrics1 |-> Snapshot("s1", o1, c1, {"Math"}),
                      metrics2 |-> metrics2,
                      commonSubjects |-> commonSubjectsOf(preferences, metrics2),
                      preferences |-> preferences]

NextCompat == calculateCompatibilityCall

SpecCompat == InitCompat /\ [][NextCompat]_vars

\* the common denominator of the terms of the compatibility formula
CompatDen == Len(call.preferences.subjects) * call.metrics1.overallScore.d * call.metrics2.overallScore.d

\* CompatDen times 40 x (|commonSubjects| / |preferences.subjects|)
\*   + max(0, 30 - |overallScore difference|) + max(0, 30 - |consistency difference|)
CompatRaw ==
    LET o1 == call.metrics1.overallScore
        o2 == call.metrics2.overallScore
        p == Len(call.preferences.subjects)
    IN  40 * Len(call.commonSubjects) * o1.d * o2.d
          + p * Max(0, 30 * o1.d * o2.d - Abs(o1.n * o2.d - o2.n * o1.d))
          + CompatDen * Max(0, 30 - Abs(call.metrics1.consistency - call.metrics2.consistency))

CompatDone == call.op = "calculateCompatibility" /\ ret # NoRet

CompatIdentical ==
    /\ call.commonSubjects = call.preferences.subjects
    /\ call.metrics1.overallScore = call.metrics2.overallScore
    /\ call.metrics1.consistency = call.metrics2.consistency

\* C5 as stated: the compatibilityScore equals 40 x (|commonSubjects| /
\* |preferences.subjects|) + max(0, 30 - |overallScore difference|)
\* + max(0, 30 - |consistency difference|), lies in [0,100] and is 100 when
\* every preferred subject is common and the two snapshots agree.
C5_ScoreIsFormula ==
    CompatDone =>
        /\ ret.value * CompatDen = CompatRaw
        /\ ret.value \in 0..100
        /\ CompatIdentical => ret.value = 100

\* C5 (amended): the compatibilityScore is that sum rounded to the nearest
\* integer (a half rounds up); it lies in [0,100] and is 100 when every
\* preferred subject is common and the two snapshots agree.
C5_ScoreIsRoundedFormula ==
    CompatDone =>
        /\ (2 * ret.value - 1) * CompatDen <= 2 * CompatRaw
        /\ 2 * CompatRaw < (2 * ret.value + 1) * CompatDen
        /\ ret.value \in 0..100
        /\ CompatIdentical => ret.value = 100

\* a sum that is no integer: 40/3 + 30 + 30
C5_Witness ==
    /\ CompatDone
    /\ Len(call.preferences.subjects) = 3
    /\ Len(call.commonSubjects) = 1
    /\ call.metrics1.overallScore = call.metrics2.overallScore
    /\ call.metrics1.consistency = call.metrics2.consistency
    /\ ret.value = 73

----------------------------------------------------------------------------
(* adjustDifficulty on its own.                                            *)

Levels == <<"beginner", "intermediate", "advanced">>

\* <<score, attempts>> of a recent event
RecentOutcomes == {50, 65, 80, 90} \X {1, 2, 4}

AdjustConsistency == {60, 70, 80}

RecentLists ==
    UNION {[1..n -> RecentOutcomes] : n \in 0..MaxRecent}

InitAdjust ==
    /\ EmptyStore
    /\ ret = NoRet
    /\ \E level \in Range(Levels), c \in AdjustConsistency, outcomes \in RecentLists :
          call = [op |-> "adjustDifficulty",
                  currentDifficulty |-> level,
                  recentPerformance |->
                      [i \in DOMAIN outcomes |->
                          StudentProgress("s1", "Math", "t", outcomes[i][1],
                                          outcomes[i][2], level, 0)],
                  metrics |-> Snapshot("s1", RatInt(80), c, {"Math"})]

NextAdjust == adjustDifficultyCall

SpecAdjust == InitAdjust /\ [][NextAdjust]_vars

LevelRank(level) == CHOOSE i \in DOMAIN Levels : Levels[i] = level

\* the level the transition table gives for n events with the given sums
TableLevel(current, n, scoreSum, attemptSum, consistency) ==
    CASE current = "beginner" /\ scoreSum >= 80 * n /\ 2 * attemptSum <= 3 * n
             /\ consistency >= 70 -> "intermediate"
      [] current = "intermediate" /\ scoreSum >= 85 * n /\ 10 * attemptSum <= 13 * n
             /\ consistency >= 80 -> "advanced"
      [] current = "intermediate" /\ (scoreSum < 60 * n \/ 2 * attemptSum > 5 * n) -> "beginner"
      [] current = "advanced" /\ (scoreSum < 70 * n \/ attemptSum > 2 * n) -> "intermediate"
      [] OTHER -> current

----------------------------------------------------------------------------
(* getLearningSpeadMultiplier on its own.                                  *)

SpeedScores ==
    {RatInt(0), RatInt(49), Rat(99, 2), RatInt(50), RatInt(69), Rat(139, 2), RatInt(70),
     RatInt(84), Rat(169, 2), RatInt(85), RatInt(100), RatInt(150)}

SpeedConsistency == {0, 39, 40, 50, 79, 80, 100}

InitSpeed ==
    /\ EmptyStore
    /\ ret = NoRet
    /\ \E o \in SpeedScores, c \in SpeedConsistency :
          call = [op |-> "getLearningSpeadMultiplier",
                  metrics |-> Snapshot("s1", o, c, {"Math"})]

NextSpeed == getLearningSpeadMultiplierCall

SpecSpeed == InitSpeed /\ [][NextSpeed]_vars

\* ten times the sum 1.0 + score adjustment + consistency adjustment
SpeedSumTenths(metrics) ==
    10 + (IF RatLe(RatInt(85), metrics.overallScore) THEN 3
          ELSE IF RatLe(RatInt(70), metrics.overallScore) THEN 1
          ELSE IF RatLt(metrics.overallScore, RatInt(50)) THEN -3 ELSE 0)
       + (IF metrics.consistency >= 80 THEN 2
          ELSE IF metrics.consistency < 40 THEN -2 ELSE 0)

\* C11: the learning speed multiplier lies in [0.5, 1.5]; it is 0.5 for
\* overallScore 0 and consistency 0, 1.5 for overallScore 100 and consistency
\* 100, and in general it is the double sum 1.0 + score adjustment (+0.3 from
\* 85, +0.1 from 70, -0.3 below 50) + consistency adjustment (+0.2 from 80, -0.2
\* below 40), clamped to [0.5, 1.5].
C11_MultiplierInRange ==
    call.op = "getLearningSpeadMultiplier" /\ ret # NoRet =>
        LET m == call.metrics
        IN  /\ FloatLe(Tenths(5), ret.value) /\ FloatLe(ret.value, Tenths(15))
            /\ ret.value.tenths = Max(5, Min(15, SpeedSumTenths(m)))
            /\ ret.value.ulp \in {-1, 0, 1}
            /\ m.overallScore = RatInt(0) /\ m.consistency = 0 => ret.value = Tenths(5)
            /\ m.overallScore = RatInt(100) /\ m.consistency = 100 => ret.value = Tenths(15)

\* the lowest input: the sum 1.0 - 0.3 - 0.2 is lifted to 0.5
C11_Witness ==
    /\ call.op = "getLearningSpeadMultiplier"
    /\ call.metrics.overallScore = RatInt(0)
    /\ call.metrics.consistency = 0
    /\ ret # NoRet
    /\ ret.value = Tenths(5)

----------------------------------------------------------------------------
(* The two grade ladders.                                                  *)

GradeThresholds == {60, 65, 70, 75, 80, 85, 90}

\* the integers around the scale, and the scores 0.01 and 0.5 below a threshold
GradeScores ==
    {RatInt(i) : i \in {-5, 0, 150} \cup 55..95}
        \cup {Rat(100 * t - 1, 100) : t \in GradeThresholds}
        \cup {Rat(2 * t - 1, 2) : t \in GradeThresholds}

InitGrade ==
    /\ EmptyStore
    /\ ret = NoRet
    /\ \E score \in GradeScores : call = [op |-> "grade", score |-> score]

NextGrade == calculateOverallGradeCall \/ subjectGradeCall

SpecGrade == InitGrade /\ [][NextGrade]_vars

\* the scale: >=90 A+, >=85 A, >=80 B+, >=75 B, >=70 C+, >=65 C, >=60 D, else F
GradeScale(score) ==
    CASE RatLe(RatInt(90), score) -> "A+"
      [] RatLt(score, RatInt(90)) /\ RatLe(RatInt(85), score) -> "A"
      [] RatLt(score, RatInt(85)) /\ RatLe(RatInt(80), score) -> "B+"
      [] RatLt(score, RatInt(80)) /\ RatLe(RatInt(75), score) -> "B"
      [] RatLt(score, RatInt(75)) /\ RatLe(RatInt(70), score) -> "C+"
      [] RatLt(score, RatInt(70)) /\ RatLe(RatInt(65), score) -> "C"
      [] RatLt(score, RatInt(65)) /\ RatLe(RatInt(60), score) -> "D"
      [] OTHER -> "F"

\* C12: the letter grade follows the scale with every boundary inclusive, and
\* the ladder of the subject reports and calculateOverallGrade give the same
\* grade for every score.
C12_GradeLadders ==
    call.op = "grade" /\ ret # NoRet =>
        /\ ret.value = GradeScale(call.score)
        /\ ret.value = calculateOverallGrade(call.score)
        /\ ret.value = subjectGrade(call.score)

\* 90 gives A+ on the subject ladder
C12_Witness ==
    /\ call.op = "grade"
    /\ call.score = RatInt(90)
    /\ ret # NoRet
    /\ ret.by = "generateStudentReport"
    /\ ret.value = "A+"

\* 89.99 gives A from calculateOverallGrade
C12_WitnessBelow ==
    /\ call.op = "grade"
    /\ call.score = Rat(8999, 100)
    /\ ret # NoRet
    /\ ret.by = "calculateOverallGrade"
    /\ ret.value = "A"

----------------------------------------------------------------------------
(* Reports: two students record events and ask for reports.                *)

ReportScores == {90}

ReportPeriods == {<<0, 0>>, <<0, MaxServiceTime>>}

NextReports ==
    \/ \E s \in Students, sc \in ReportScores :
          recordProgress(s, "Math", "t", sc, 1, "beginner")
    \/ \E s \in Students, period \in ReportPeriods :
          generateStudentReport(s, period[1], period[2])
    \/ Tick(1, MaxServiceTime)

SpecReports == Init /\ [][NextReports]_vars

\* the step is a call of generateStudentReport for student s
ReportStep(s) ==
    /\ call'.op = "generateStudentReport"
    /\ call'.studentId = s
    /\ now' = now

\* C13: when the student has no persisted snapshot and no event, a call of
\* generateStudentReport ends with an error, returns no report and writes no
\* document to the collection "reports".
C13_NoMetricsNoReport ==
    [][\A s \in Students :
          ReportStep(s) /\ s \notin DOMAIN performanceMetrics /\ EventsOf(s) = <<>> =>
              /\ ret' = [error |-> "No performance data available"]
              /\ reports' = reports
              /\ s \notin DOMAIN performanceMetrics']_vars

\* the other student has a report already; the call for a student without
\* events fails
C13_Witness ==
    /\ call.op = "generateStudentReport"
    /\ EventsOf(call.studentId) = <<>>
    /\ ret = [error |-> "No performance data available"]
    /\ reports # <<>>
    /\ \A id \in DOMAIN reports : reports[id].studentId # call.studentId

\* C15: every successful generateStudentReport call stores its report under
\* a reportId no stored report has, and leaves every stored report as it was.
C15_ReportIdFresh ==
    [][\A s \in Students :
          ReportStep(s) /\ ret' # [error |-> "No performance data available"] =>
              /\ ret'.reportId \notin DOMAIN reports
              /\ \A id \in DOMAIN reports :
                     id \in DOMAIN reports' /\ reports'[id] = reports[id]]_vars

----------------------------------------------------------------------------
(* Every service on one store: the events of two students, the calls of    *)
(* one of them.                                                            *)

ServiceCallers == {"s1"}

ServiceScores == {50}

NextServices ==
    \/ \E s \in Students, sc \in ServiceScores :
          recordProgress(s, "Math", "t", sc, 1, "beginner")
    \/ \E s \in ServiceCallers : getStudentProgressCall(s)
    \/ \E s \in ServiceCallers : identifyLearningGaps(s)
    \/ \E s \in ServiceCallers : getPerformanceMetrics(s)
    \/ \E s \in ServiceCallers : generateInsights(s)
    \/ \E s \in ServiceCallers : generateStudentReport(s, 0, MaxServiceTime)
    \/ \E s \in ServiceCallers : findStudyMatches(s, [subjects |-> <<"Math">>])
    \/ \E s \in ServiceCallers : cleanupOldData(s)
    \/ Tick(1, MaxServiceTime)

SpecServices == Init /\ [][NextServices]_vars

\* the sequence without its i-th element
Without(seq, i) == SubSeq(seq, 1, i - 1) \o SubSeq(seq, i + 1, Len(seq))

----------------------------------------------------------------------------
(* Two callers inside recordProgress at once, and lookups in between.      *)

Callers == {"c1", "c2"}

RaceScores == {0, 100}

NextRace ==
    \/ \E c \in Callers, s \in Students, sc \in RaceScores :
          recordProgressSetDoc(c, s, "Math", "t", sc, 1, "beginner")
    \/ \E c \in Callers : recordProgressGetDocs(c)
    \/ \E c \in Callers : recordProgressReturn(c)
    \/ \E s \in Students : getPerformanceMetrics(s)
    \/ \E d \in TickSteps : Tick(d, MaxTime)

SpecRace == Init /\ [][NextRace]_vars

\* the step is a call of getPerformanceMetrics for student s
LookupStep(s) ==
    /\ call'.op = "getPerformanceMetrics"
    /\ call'.studentId = s
    /\ now' = now
    /\ pending' = pending
    /\ progress' = progress

\* what a lookup does with a stored snapshot, and with events and no snapshot
LookupOfStoredOrComputed(s) ==
    /\ s \in DOMAIN performanceMetrics =>
           ret' = performanceMetrics[s] /\ performanceMetrics' = performanceMetrics
    /\ s \notin DOMAIN performanceMetrics /\ EventsOf(s) # <<>> =>
           /\ DOMAIN performanceMetrics' = DOMAIN performanceMetrics \cup {s}
           /\ \A x \in DOMAIN performanceMetrics :
                  performanceMetrics'[x] = performanceMetrics[x]
           /\ ret' = performanceMetrics'[s]
           /\ ret'.studentId = s
           /\ IsMeanOf(ret'.overallScore, EventsOf(s))
    /\ UNCHANGED <<learningGaps, studyMatches, reports, insights, privacySettings, auth>>

SnapshotsHaveEvents == \A s \in DOMAIN performanceMetrics : EventsOf(s) # <<>>

C14_WitnessNone ==
    /\ call.op = "getPerformanceMetrics"
    /\ EventsOf(call.studentId) = <<>>
    /\ ret = NoRet
    /\ performanceMetrics # <<>>

\* C19: when two recordProgress calls for one student interleave, each
\* metrics write replaces the stored snapshot by the one computed from the
\* events its call had read, so the last write wins.
C19_LastWriteWins ==
    [][\A c \in Callers :
          /\ c \in DOMAIN pending
          /\ pending[c].at = "read"
          /\ c \notin DOMAIN pending'
          => LET s == pending[c].progressData.studentId
             IN  /\ s \in DOMAIN performanceMetrics'
                 /\ performanceMetrics'[s] = computeMetrics(s, pending[c].progress, now)
                 /\ IsMeanOf(performanceMetrics'[s].overallScore, pending[c].progress)]_vars

\* the lost update: both calls have returned, and the stored snapshot was
\* computed without one of the two stored events
C19_Witness ==
    /\ pending = <<>>
    /\ call.op = "recordProgress"
    /\ Len(EventsOf("s1")) = 2
    /\ "s1" \in DOMAIN performanceMetrics
    /\ ~IsMeanOf(performanceMetrics["s1"].overallScore, EventsOf("s1"))

----------------------------------------------------------------------------
(* Insights: one student with events of two subjects, stored at instant 0. *)

InsightSubjects == <<"Math", "Art">>

\* the score of every event of a subject; -1: the subject has no event
InsightScores == {-1, 40, 65, 80}

\* the number of events of each subject that has events
InsightRuns == {1, 3, 7}

\* n events of each subject subj with score[subj] >= 0, those of Math first
InsightHistory(score, n) ==
    LET run(k) == IF score[InsightSubjects[k]] < 0 THEN <<>>
                  ELSE [i \in 1..n |->
                           StudentProgress("s1", InsightSubjects[k], "t",
                                           score[InsightSubjects[k]], 1, "beginner", 0)]
    IN  run(1) \o run(2)

InitInsights ==
    /\ now = 0
    /\ \E score \in [Range(InsightSubjects) -> InsightScores], n \in InsightRuns :
          progress = InsightHistory(score, n)
    /\ performanceMetrics \in {<<>>, metricsWritten(<<>>, progress, "s1", 0)}
    /\ learningGaps = <<>>
    /\ studyMatches = <<>>
    /\ users = [u \in Students |-> [role |-> "student"]]
    /\ prior = <<>>
    /\ EmptyRest
    /\ call = NoCall
    /\ ret = NoRet

NextInsights ==
    \/ \E s \in Students : generateInsights(s)
    \/ \E s \in Students : updatePerformanceMetrics(s)
    \/ \E d \in TickSteps : Tick(d, MaxTime)

SpecInsights == InitInsights /\ [][NextInsights]_vars

\* the step is a call of generateInsights for student s
InsightStep(s) ==
    /\ call'.op = "generateInsights"
    /\ call'.studentId = s
    /\ now' = now

\* list is: one achievement per strength, one weakness per weakness, the
\* advice on consistency if it is below 50, the advice on pace if the
\* velocity is below 3, in this order
IsInsightList(list, m) ==
    LET ns == Len(m.strengths)
        nw == Len(m.weaknesses)
        c == IF m.consistency < 50 THEN 1 ELSE 0
        v == IF m.learningVelocity < 3 THEN 1 ELSE 0
    IN  /\ Len(list) = ns + nw + c + v
        /\ \A i \in 1..ns :
               /\ list[i].type = "achievement"
               /\ list[i].title = "Excelling in " \o m.strengths[i]
        /\ \A i \in 1..nw :
               /\ list[ns + i].type = "weakness"
               /\ list[ns + i].title = "Improvement needed in " \o m.weaknesses[i]
        /\ c = 1 => /\ list[ns + nw + 1].type = "recommendation"
                    /\ list[ns + nw + 1].title = "Improve Study Consistency"
        /\ v = 1 => /\ list[ns + nw + c + 1].type = "recommendation"
                    /\ list[ns + nw + c + 1].title = "Increase Learning Pace"

\* C17: with metrics, generateInsights returns one achievement insight per
\* strength, one weakness insight per weakness, a recommendation if
\* consistency < 50 and one if learningVelocity < 3, in this order, and
\* replaces the student's stored batch by that list; without metrics it
\* returns the empty list and writes nothing to "insights".
C17_InsightBatch ==
    [][\A s \in Students :
          InsightStep(s) =>
              IF s \in DOMAIN performanceMetrics'
              THEN /\ IsInsightList(ret', performanceMetrics'[s])
                   /\ s \in DOMAIN performanceMetrics =>
                          performanceMetrics'[s] = performanceMetrics[s]
                   /\ DOMAIN insights' = DOMAIN insights \cup {s}
                   /\ insights'[s] = [studentId |-> s, insights |-> ret', generatedAt |-> now]
                   /\ \A x \in DOMAIN insights \ {s} : insights'[x] = insights[x]
              ELSE /\ ret' = <<>>
                   /\ insights' = insights]_vars

\* a batch of four replaced an older batch: a strength, a weakness and both
\* recommendations
C17_Witness ==
    /\ call.op = "generateInsights"
    /\ Len(ret) = 4
    /\ ret[1].type = "achievement"
    /\ ret[2].type = "weakness"
    /\ ret[3].title = "Improve Study Consistency"
    /\ ret[4].title = "Increase Learning Pace"
    /\ insights[call.studentId].insights = ret
    /\ insights[call.studentId].generatedAt > 0
    /\ ret[1].createdAt = now

\* a call for the student without events
C17_WitnessNone ==
    /\ call.op = "generateInsights"
    /\ call.studentId \notin DOMAIN performanceMetrics
    /\ ret = <<>>
    /\ insights # <<>>
    /\ call.studentId \notin DOMAIN insights

----------------------------------------------------------------------------
(* Privacy settings of two users.                                          *)

PrivacyUpdates ==
    {[dataSharing |-> [analytics |-> FALSE, matchmaking |-> TRUE, teacherView |-> TRUE]],
     [encryption |-> [enabled |-> FALSE, sensitiveFields |-> <<>>]]}

NextPrivacy ==
    \/ \E u \in Students : getPrivacySettings(u)
    \/ \E u \in Students, updates \in PrivacyUpdates : updatePrivacySettings(u, updates)
    \/ \E u \in Students : cleanupOldData(u)
    \/ Tick(1, MaxServiceTime)

SpecPrivacy == Init /\ [][NextPrivacy]_vars

\* the step is a call of getPrivacySettings for user u
PrivacyStep(u) ==
    /\ call'.op = "getPrivacySettings"
    /\ call'.userId = u
    /\ now' = now

\* C18: a getPrivacySettings(u) for a user without settings document leaves
\* one document for u that holds the defaults and returns it; a call for a
\* user with a document returns the document and writes nothing.
C18_LazyDefaults ==
    [][\A u \in Students :
          PrivacyStep(u) =>
              /\ u \notin DOMAIN privacySettings =>
                     /\ DOMAIN privacySettings' = DOMAIN privacySettings \cup {u}
                     /\ \A x \in DOMAIN privacySettings :
                            privacySettings'[x] = privacySettings[x]
                     /\ privacySettings'[u] =
                            [userId |-> u,
                             dataSharing |-> [analytics |-> TRUE, matchmaking |-> TRUE,
                                              teacherView |-> TRUE],
                             dataRetention |-> [progressHistory |-> 365, activityLogs |-> 90],
                             encryption |-> [enabled |-> TRUE,
                                             sensitiveFields |-> <<"email", "displayName">>],
                             lastUpdated |-> now]
                     /\ ret' = privacySettings'[u]
              /\ u \in DOMAIN privacySettings =>
                     /\ privacySettings' = privacySettings
                     /\ ret' = privacySettings[u]]_vars

\* a first read created the defaults
C18_Witness ==
    /\ call.op = "getPrivacySettings"
    /\ ~call.existed
    /\ ret = privacySettings[call.userId]
    /\ ret.dataRetention = [progressHistory |-> 365, activityLogs |-> 90]
    /\ ret.lastUpdated = now

\* a further read, later, returned the defaults of the first read
C18_WitnessAgain ==
    /\ call.op = "getPrivacySettings"
    /\ call.existed
    /\ ret = privacySettings[call.userId]
    /\ "dataRetention" \in DOMAIN ret
    /\ ret.dataRetention = [progressHistory |-> 365, activityLogs |-> 90]
    /\ ret.lastUpdated < now

----------------------------------------------------------------------------
(* Matchmaking with lookups that fail: four students, a caller with a      *)
(* snapshot, candidates with or without one.                               *)

FailStudents == {"u1", "u2", "u3", "u4"}

FailScores == {-1, 50, 80}

InitMatchFail ==
    /\ now = 0
    /\ \E k \in [FailStudents \ {"u1"} -> FailScores], stored \in BOOLEAN :
          LET scores == [u \in FailStudents |-> IF u = "u1" THEN 80 ELSE k[u]]
          IN  /\ progress = MatchEvents(scores, Len(UidOrder))
              /\ performanceMetrics =
                     [u \in {u \in FailStudents : scores[u] >= 0 /\ (stored \/ u = "u1")} |->
                         computeMetrics(u, getStudentProgress(progress, u), 0)]
    /\ users = [u \in FailStudents \cup {"u8"} |->
                   [role |-> IF u = "u8" THEN "teacher" ELSE "student"]]
    /\ learningGaps = <<>>
    /\ studyMatches = <<>>
    /\ prior = <<>>
    /\ EmptyRest
    /\ call = NoCall
    /\ ret = NoRet

NextMatchFail ==
    \/ \E preferences \in MatchPreferences : findStudyMatches("u1", preferences)
    \/ \E preferences \in MatchPreferences, n \in 1..Cardinality(FailStudents),
          written \in BOOLEAN :
          findStudyMatchesFails("u1", preferences, n, written)

SpecMatchFail == InitMatchFail /\ [][NextMatchFail]_vars

\* the step is a findStudyMatches call in which a candidate's lookup failed
FailedStep ==
    /\ call'.op = "findStudyMatches"
    /\ "failed" \in DOMAIN call'
    /\ \/ call' # call
       \/ ret' # ret
       \/ performanceMetrics' # performanceMetrics
       \/ studyMatches' # studyMatches

\* C20: when the metrics lookup of a candidate fails, findStudyMatches ends
\* with that error, returns no match and has written no studyMatches document.
C20_FailedLookupAborts ==
    [][FailedStep =>
          /\ ret' = [error |-> "getPerformanceMetrics"]
          /\ studyMatches' = studyMatches]_vars

\* two candidates had been scored and pushed when the third lookup failed;
\* nothing was saved
C20_Witness ==
    /\ call.op = "findStudyMatches"
    /\ "failed" \in DOMAIN call
    /\ call.pushed = 2
    /\ ret = [error |-> "getPerformanceMetrics"]
    /\ studyMatches = <<>>

----------------------------------------------------------------------------
(* recordProgress with a recomputation that may reject: calls run one at a *)
(* time, and some of them fail after their event was stored.               *)

FailureScores == {0, 100}

\* the store call of updatePerformanceMetrics that rejects
FailurePoints == {"getDocs", "setDoc"}

NextFailure ==
    \/ \E s \in Students, subj \in Subjects, sc \in FailureScores :
          recordProgress(s, subj, "t", sc, 1, "beginner")
    \/ \E s \in Students, subj \in Subjects, sc \in FailureScores, at \in FailurePoints :
          recordProgressFails(s, subj, "t", sc, 1, "beginner", at)
    \/ \E d \in TickSteps : Tick(d, MaxTime)

SpecFailure == Init /\ [][NextFailure]_vars

\* the step is a recordProgress call whose recomputation rejected
RecomputeFailedStep ==
    /\ call'.op = "recordProgress"
    /\ "failed" \in DOMAIN call'
    /\ now' = now
    /\ progress' # progress

\* C21: when the recomputation fails after the event was written, the caller
\* gets the error, the new event stays in "progress" and the persisted
\* snapshots are the ones the store held before the call.
C21_FailedRecomputeKeepsEvent ==
    [][RecomputeFailedStep =>
          /\ ret' = [error |-> call'.failed]
          /\ Len(progress') = Len(progress) + 1
          /\ \E i \in DOMAIN progress' :
                /\ Without(progress', i) = progress
                /\ progress'[i].studentId = call'.studentId
                /\ progress'[i].completedAt = now
          /\ performanceMetrics' = performanceMetrics]_vars

\* calls ran one at a time, the second one failed: the student's snapshot is
\* the mean of the first event only, while the store holds both events
C21_Witness ==
    /\ call.op = "recordProgress"
    /\ "failed" \in DOMAIN call
    /\ call.studentId \in DOMAIN performanceMetrics
    /\ Len(EventsOf(call.studentId)) = 2
    /\ ~IsMeanOf(performanceMetrics[call.studentId].overallScore, EventsOf(call.studentId))

\* the first call of a student failed: an event is stored and no snapshot is
C21_WitnessNoSnapshot ==
    /\ call.op = "recordProgress"
    /\ "failed" \in DOMAIN call
    /\ Len(EventsOf(call.studentId)) = 1
    /\ call.studentId \notin DOMAIN performanceMetrics

----------------------------------------------------------------------------
(* adjustDifficulty fed with its own result, the recent events and the     *)
(* metrics fixed.                                                          *)

\* <<score, attempts>> of a recent event
FeedbackOutcomes == {50, 65, 90} \X {1, 2, 4}

FeedbackLists == UNION {[1..n -> FeedbackOutcomes] : n \in 3..MaxRecent}

InitFeedback ==
    /\ EmptyStore
    /\ ret = NoRet
    /\ \E level \in Range(Levels), c \in AdjustConsistency, outcomes \in FeedbackLists :
          call = [op |-> "adjustDifficulty",
                  currentDifficulty |-> level,
                  recentPerformance |->
                      [i \in DOMAIN outcomes |->
                          StudentProgress("s1", "Math", "t", outcomes[i][1],
                                          outcomes[i][2], level, 0)],
                  metrics |-> Snapshot("s1", RatInt(80), c, {"Math"}),
                  path |-> <<level>>]

NextFeedback == adjustDifficultyAgain

SpecFeedback == InitFeedback /\ [][NextFeedback]_vars

\* C22: with 3 or more recent events and fixed metrics, the levels obtained by
\* feeding the result back in are constant from the second application on, and
\* no level that was left appears again.
C22_NoOscillation ==
    LET path == call.path
    IN  /\ \A k \in DOMAIN path : k >= 3 => path[k] = path[3]
        /\ \A i, j, k \in DOMAIN path :
               i < j /\ j < k /\ path[j] # path[i] => path[k] # path[i]

\* a beginner climbs two levels in two applications and stays
C22_Witness ==
    call.path = <<"beginner", "intermediate", "advanced", "advanced">>

\* an advanced student falls two levels in two applications and stays
C22_WitnessDown ==
    call.path = <<"advanced", "intermediate", "beginner", "beginner">>

----------------------------------------------------------------------------
(* Weakness insights: one student records events of two subjects and two   *)
(* topics at one instant; a recomputation may fail and leave the snapshot  *)
(* behind the events.                                                      *)

WeaknessScores == {0, 50, 100}

WeaknessTopics == {"t", "u"}

WeaknessAttempts == {1, 3}

NextWeakness ==
    \/ \E subj \in Subjects, topic \in WeaknessTopics, sc \in WeaknessScores,
          attempts \in WeaknessAttempts :
          recordProgress("s1", subj, topic, sc, attempts, "beginner")
    \/ \E subj \in Subjects, topic \in WeaknessTopics, sc \in WeaknessScores :
          recordProgressFails("s1", subj, topic, sc, 1, "beginner", "setDoc")
    \/ \E s \in Students : generateInsights(s)

SpecWeakness == Init /\ [][NextWeakness]_vars

\* the three generic action items of lines 52-56
FallbackItems(subject) ==
    <<"Schedule dedicated study time for " \o subject,
      "Seek help from teacher or tutor",
      "Practice with additional exercises">>

\* the student's events of a subject that open a gap, in the query's order
GapEvents(s, subject) ==
    SelectSeq(EventsOn(s, subject), LAMBDA e : e.score < 60 \/ e.attempts > 2)

----------------------------------------------------------------------------
(* The auth provider: notifications of sign-in and sign-out arrive while   *)
(* earlier callbacks are suspended in their store calls; signInWithGoogle  *)
(* is called for users with and without a profile document.                *)

AuthUids == {"a1", "a2"}

\* what "users" may hold for a uid at the start: no document, or a profile
AuthRoles == {"none", "teacher", "student"}

AuthOutcomes == {"ok", "error"}

AuthProfile(uid, role) ==
    [email |-> uid \o "@x.org", displayName |-> uid, role |-> role,
     createdAt |-> 0, lastLogin |-> 0]

InitAuth ==
    /\ now = 0
    /\ progress = <<>>
    /\ performanceMetrics = <<>>
    /\ learningGaps = <<>>
    /\ studyMatches = <<>>
    /\ \E role \in [AuthUids -> AuthRoles] :
          users = [u \in {x \in AuthUids : role[x] # "none"} |-> AuthProfile(u, role[u])]
    /\ prior = <<>>
    /\ EmptyRest
    /\ call = NoCall
    /\ ret = NoRet

NextAuth ==
    \/ \E u \in {[uid |-> x] : x \in AuthUids} \cup {Null} : onAuthStateChanged(u)
    \/ \E cb \in 1..MaxNotifications, lookup \in AuthOutcomes :
          onAuthStateChangedGetDoc(cb, lookup)
    \/ \E cb \in 1..MaxNotifications, write \in AuthOutcomes :
          onAuthStateChangedSetDoc(cb, write)
    \/ \E uid \in AuthUids, displayName \in {"", "Ann"}, lookup \in AuthOutcomes :
          signInWithGoogle(uid, uid \o "@x.org", displayName, lookup)
    \/ Tick(1, MaxServiceTime)

SpecAuth == InitAuth /\ [][NextAuth]_vars

\* C24: when no auth-state callback is pending, userProfile is null whenever
\* user is null.
C24_NoProfileWithoutUser ==
    DOMAIN pending = {} => (auth.user = Null => auth.userProfile = Null)

\* the step is a call of signInWithGoogle
GoogleStep ==
    /\ call'.op = "signInWithGoogle"
    /\ now' = now
    /\ auth' = auth
    /\ pending' = pending

\* C25: signInWithGoogle leaves every existing profile document as it is, also
\* when the lookup fails, and creates a profile with role student for a uid
\* that has none.
C25_ExistingProfileKept ==
    [][GoogleStep =>
          /\ \A u \in DOMAIN users : users'[u] = users[u]
          /\ call'.uid \notin DOMAIN users =>
                 /\ DOMAIN users' = DOMAIN users \cup {call'.uid}
                 /\ users'[call'.uid].role = "student"]_vars

====
